---- MODULE Spec2Model ----
(***************************************************************************)
(* Gradient infill post-processors (Universal, Orca, Prusa variants).      *)
(*                                                                         *)
(* A run of process_gcode is modelled line by line: one action consumes    *)
(* the next line of the input file and performs the whole loop body of the *)
(* variant on it.  Floating point values are modelled as exact rationals   *)
(* <<n, d>> (d > 0, lowest terms); square roots are exact when the         *)
(* radicand is a rational square and truncated to 1/SqrtQ otherwise.       *)
(* Two IEEE values that the Universal variant can produce from its         *)
(* (-inf, -inf) start position are kept as the special values NegInf and   *)
(* NaN.                                                                    *)
(***************************************************************************)
EXTENDS Integers, Sequences, FiniteSets, TLC

(***************************************************************************)
(* Rational arithmetic                                                     *)
(***************************************************************************)
RECURSIVE GCD(_, _)
GCD(a, b) == IF b = 0 THEN a ELSE GCD(b, a % b)

Abs(n) == IF n < 0 THEN -n ELSE n

Norm(n, d) ==
    LET g == GCD(Abs(n), Abs(d))
        s == IF d < 0 THEN -1 ELSE 1
    IN  <<(s * n) \div g, (s * d) \div g>>

R(n) == <<n, 1>>
\* IEEE special values, and two markers for a token of a line
NaN == <<0, 0>>
NegInf == <<-1, 0>>
PosInf == <<1, 0>>
\* the token is not on the line
Absent == <<0, -1>>
\* the token is on the line but its number does not match \d*\.?\d* (e.g. X-5)
Bad == <<0, -2>>

IsFin(a) == a[2] > 0

RAdd(a, b) == Norm(a[1] * b[2] + b[1] * a[2], a[2] * b[2])
RSub(a, b) == Norm(a[1] * b[2] - b[1] * a[2], a[2] * b[2])
RMul(a, b) ==
    LET g1 == GCD(Abs(a[1]), b[2])
        g2 == GCD(Abs(b[1]), a[2])
    IN  Norm((a[1] \div g1) * (b[1] \div g2), (a[2] \div g2) * (b[2] \div g1))
RDiv(a, b) == RMul(a, Norm(b[2], b[1]))
RLt(a, b) == a[1] * b[2] < b[1] * a[2]
RLe(a, b) == a[1] * b[2] <= b[1] * a[2]
RAbs(a) == <<Abs(a[1]), a[2]>>
RNeg(a) == <<-a[1], a[2]>>
RFloor(a) == a[1] \div a[2]

\* a < b on floats: any comparison with NaN is false
FLt(a, b) ==
    IF a = NaN \/ b = NaN THEN FALSE
    ELSE IF a = PosInf \/ b = NegInf THEN FALSE
    ELSE IF b = PosInf \/ a = NegInf THEN TRUE
    ELSE RLt(a, b)

RECURSIVE ISqrtBin(_, _, _)
ISqrtBin(n, lo, hi) ==
    IF hi - lo <= 1 THEN lo
    ELSE LET mid == (lo + hi) \div 2
         IN  IF mid * mid <= n THEN ISqrtBin(n, mid, hi) ELSE ISqrtBin(n, lo, mid)

\* floor of the square root of a natural number below 2^31
ISqrt(n) == IF n < 2 THEN n ELSE ISqrtBin(n, 1, IF n < 46341 THEN n ELSE 46341)

\* the largest decimal scale q such that m * q * q stays below 2^31
FitQ(m) == IF m < 2000 THEN 1000 ELSE IF m < 200000 THEN 100 ELSE IF m < 20000000 THEN 10 ELSE 1

\* x ** 0.5 for a rational x >= 0: exact for a rational square, otherwise
\* truncated to the precision that fits the integer width
Sqrt(a) ==
    LET rn == ISqrt(a[1])
        rd == ISqrt(a[2])
        m  == a[1] * a[2]
        q  == FitQ(m)
    IN  IF rn * rn = a[1] /\ rd * rd = a[2] THEN <<rn, rd>>
        ELSE Norm(ISqrt(m * q * q), a[2] * q)

RECURSIVE Pow10(_)
Pow10(k) == IF k = 0 THEN 1 ELSE 10 * Pow10(k - 1)

\* the first k decimal digits of r / d (0 <= r < d), by long division
RECURSIVE Digits(_, _, _)
Digits(r, d, k) ==
    IF k = 0 THEN 0
    ELSE ((r * 10) \div d) * Pow10(k - 1) + Digits((r * 10) % d, d, k - 1)

\* round(x, k)
Round(a, k) ==
    LET n == Abs(a[1])
        q == n \div a[2]
        f == (Digits(n % a[2], a[2], k + 1) + 5) \div 10
        v == Norm(q * Pow10(k) + f, Pow10(k))
    IN  IF a[1] < 0 THEN RNeg(v) ELSE v

(***************************************************************************)
(* Geometry                                                                *)
(***************************************************************************)
Point2D(x, y) == <<x, y>>
Segment(p1, p2) == [point1 |-> p1, point2 |-> p2]

PointFin(p) == IsFin(p[1]) /\ IsFin(p[2])

Sq(a) == RMul(a, a)

\* get_points_distance: an infinite coordinate gives inf
get_points_distance(point1, point2) ==
    IF PointFin(point1) /\ PointFin(point2)
    THEN Sqrt(RAdd(Sq(RSub(point1[1], point2[1])), Sq(RSub(point1[2], point2[2]))))
    ELSE PosInf

\* dist: distance from a point to a segment of finite length.
\* u is the projection parameter; it is clamped to [0, 1] and the distance
\* from the point to point1 + u * (px, py) is returned.  For 0 < u < 1 that
\* distance is |cross| / norm ** 0.5, which is how it is computed here.
\* With norm = 0 the division raises ZeroDivisionError and 0 is returned
\* (Universal and Orca; the Prusa script has no try, see PrusaDistRaises).
\* A segment with an endpoint at -inf makes u, and the result, NaN; a point
\* at -inf gives inf, or NaN where inf - inf or 0 * inf occurs.
distFin(segment, point) ==
    LET px   == RSub(segment.point2[1], segment.point1[1])
        py   == RSub(segment.point2[2], segment.point1[2])
        norm == RAdd(Sq(px), Sq(py))
        qx   == RSub(point[1], segment.point1[1])
        qy   == RSub(point[2], segment.point1[2])
        dot  == RAdd(RMul(qx, px), RMul(qy, py))
        cross == RSub(RMul(qx, py), RMul(qy, px))
    IN  IF norm = R(0) THEN R(0)
        ELSE IF RLt(norm, dot) THEN get_points_distance(segment.point2, point)
        ELSE IF RLt(dot, R(0)) THEN get_points_distance(segment.point1, point)
        ELSE RDiv(RAbs(cross), Sqrt(norm))

dist(segment, point) ==
    IF ~(PointFin(segment.point1) /\ PointFin(segment.point2)) THEN NaN
    ELSE IF PointFin(point) THEN distFin(segment, point)
    ELSE LET px == RSub(segment.point2[1], segment.point1[1])
             py == RSub(segment.point2[2], segment.point1[2])
         IN  IF px = R(0) /\ py = R(0) THEN R(0)
             ELSE IF px[1] * py[1] > 0 THEN PosInf ELSE NaN

MidPoint(segment) ==
    IF PointFin(segment.point1) /\ PointFin(segment.point2)
    THEN Point2D(RDiv(RAdd(segment.point1[1], segment.point2[1]), R(2)),
                 RDiv(RAdd(segment.point1[2], segment.point2[2]), R(2)))
    ELSE Point2D(NegInf, NegInf)

\* min(segments, key = dist to the middle point): the first segment is kept
\* unless a later one compares strictly smaller (never true for NaN)
RECURSIVE MinSegFrom(_, _, _, _)
MinSegFrom(segments, middlePoint, i, best) ==
    IF i > Len(segments) THEN best
    ELSE IF FLt(dist(segments[i], middlePoint), dist(best, middlePoint))
         THEN MinSegFrom(segments, middlePoint, i + 1, segments[i])
         ELSE MinSegFrom(segments, middlePoint, i + 1, best)

\* min_distance_from_segment(segment, segments, return_seg = True); the
\* caller makes sure that segments is not empty (min() raises ValueError)
min_distance_from_segment(segment, segments) ==
    LET middlePoint == MidPoint(segment)
        min_segment == MinSegFrom(segments, middlePoint, 2, segments[1])
    IN  [min_value |-> dist(min_segment, middlePoint), min_segment |-> min_segment]

\* the ends of the output range taken in the wrong order
mapRangeSwapped(a, b, s) ==
    RAdd(b[2], RDiv(RMul(RSub(s, a[1]), RSub(b[1], b[2])), RSub(a[2], a[1])))
\* b1 + ((s - a1) * (b2 - b1) / (a2 - a1))
mapRange(a, b, s) ==
    RAdd(b[1], RDiv(RMul(RSub(s, a[1]), RSub(b[2], b[1])), RSub(a[2], a[1])))

PiApprox == <<22, 7>>

\* the number control_flow puts on its "G1 F..." line
control_flow(hotend_max_flow, extrusionLength, distance, d_f) ==
    Round(RDiv(RMul(RMul(hotend_max_flow, distance), R(240)),
               RMul(RMul(extrusionLength, Sq(d_f)), PiApprox)), 3)

(***************************************************************************)
(* Lines of a G-code file.  A line is a record of its tokens:              *)
(*   k    "type"   a feature marker, voc + s  (";TYPE:" + "Inner wall")    *)
(*        "layer"  a layer change marker, s is its text                    *)
(*        "banner" a slicer banner, s is its text                          *)
(*        "model"  the "; printer_model = Bambu" setting                   *)
(*        "width"  a line width setting, s its name, e its value in mm     *)
(*        "g"      a command, s is the command word, x y e f its tokens    *)
(*        "text"   any other line                                          *)
(* Every text of the model either equals a prefix the scripts test with    *)
(* startswith or has none of them as a prefix.                             *)
(***************************************************************************)
Line(k, voc, s, x, y, e, f) ==
    [k |-> k, voc |-> voc, s |-> s, x |-> x, y |-> y, e |-> e, f |-> f]

TypeLine(voc, name) == Line("type", voc, name, Absent, Absent, Absent, Absent)
LayerLine(s)        == Line("layer", "", s, Absent, Absent, Absent, Absent)
BannerLine(s)       == Line("banner", "", s, Absent, Absent, Absent, Absent)
ModelLine           == Line("model", "", "; printer_model = Bambu", Absent, Absent, Absent, Absent)
WidthLine(s, v)     == Line("width", "", s, Absent, Absent, v, Absent)
TextLine(s)         == Line("text", "", s, Absent, Absent, Absent, Absent)
GLine(cmd, x, y, e, f) == Line("g", "", cmd, x, y, e, f)

\* "G1 F{}\n".format(speed)
FeedLine(speed) == GLine("G1", Absent, Absent, Absent, speed)

\* re.compile(r'^G[0-1].*X.*Y')
prog_move(l) == l.k = "g" /\ l.s \in {"G0", "G1"} /\ l.x # Absent /\ l.y # Absent

\* re.compile(r'^G1.*X.*Y.*E')
prog_extrusion(l) == l.k = "g" /\ l.s = "G1" /\ l.x # Absent /\ l.y # Absent /\ l.e # Absent

\* "G1" in line and " X" in line and "Y" in line and "E" in line
is_extrusion_line(l) == l.k = "g" /\ l.s = "G1" /\ l.x # Absent /\ l.y # Absent /\ l.e # Absent

\* "F" in currentLine and "G1" in currentLine
HasFeed(l) == l.k = "g" /\ l.s = "G1" /\ l.f # Absent

\* "E" in currentLine, for a line that has "G1" in it
HasE(l) == l.e # Absent

\* currentLine.startswith('G2 ') or currentLine.startswith('G3 ')
IsArc(l) == l.k = "g" /\ l.s \in {"G2", "G3"}

\* getXY raises SyntaxError when X or Y is missing, and float('') raises
\* ValueError when the pattern X(\d*\.?\d*) matches no digits
XYRaises(l) == l.x \in {Absent, Bad} \/ l.y \in {Absent, Bad}
getXY(l) == Point2D(l.x, l.y)

\* get_extrusion_command
get_extrusion_command(x, y, extrusion) ==
    GLine("G1", Round(x, 3), Round(y, 3), Round(extrusion, 5), Absent)

\* an element of lines: the text, how it was produced, the invocation that
\* appended it and, for a copy of an input line, the number of that line
Out(txt, role, run, src) == [txt |-> txt, role |-> role, run |-> run, src |-> src]

(***************************************************************************)
(* The body of the loop over the input lines.                              *)
(*                                                                         *)
(* s is the record of the local variables of process_gcode, l the current  *)
(* line and c the parameters of the run.  A stage is a piece of the loop   *)
(* body; it is skipped once an exception was raised (s.err) or "continue"  *)
(* was executed (s.cont).  s.out collects what the body appends to lines.  *)
(* s.bound is the set of the local names that are bound; reading another   *)
(* one raises UnboundLocalError.                                           *)
(***************************************************************************)
Running(s) == s.err = "none" /\ ~s.cont
Raise(s, e) == [s EXCEPT !.err = e]

\* lines.append(...): the text and the place of the script that produced it
\*   "copy"      lines.append(currentLine)
\*   "feed"      "G1 F{}".format(infill_speed), the feed of the slicer
\*   "override"  the line of control_flow
\*   "move"      a rewritten move or a step of a split move
Emit(s, txt, role) == [s EXCEPT !.out = Append(@, <<txt, role>>)]
EmitCurrent(s, l) == Emit(s, l, "copy")
EmitFeed(s, speed) == Emit(s, FeedLine(speed), "feed")
EmitOverride(s, feedrate) == Emit(s, FeedLine(feedrate), "override")

\* an infill move is emitted; s.moves notes for each move of the current line
\* its place in s.out, the factor its E was multiplied with, the branch
\* (site) that emitted it and the nearest wall distance used (NaN if none)
NoteMove(s, factor, site, d) ==
    [s EXCEPT !.moves = Append(@, [at |-> Len(s.out), factor |-> factor, site |-> site, d |-> d])]
EmitMove(s, txt, factor, site, d) == NoteMove(Emit(s, txt, "move"), factor, site, d)

\* the rewritten line: the tokens of the line with the E token replaced
ReplaceE(l, newE) == [l EXCEPT !.e = Round(newE, 5)]

Pct(p) == RDiv(p, R(100))

\* gradientDiscretizationLength
UnitLength(c) == RDiv(c.gradient_thickness, c.gradient_discretization)

\* (float(infill_speed) * d_f**2 * pi * E) / (4 * segmentLength * 60)
InfillFlow(speed, d_f, e, segmentLength) ==
    RDiv(RMul(RMul(RMul(speed, Sq(d_f)), PiApprox), e), RMul(R(240), segmentLength))

\* the quantities a LINEAR move is split with
\* segmentLength / gradientDiscretizationLength
LinearSteps(segmentLength, unit) ==
    IF IsFin(segmentLength) THEN RDiv(segmentLength, unit) ELSE PosInf

\* the extrusion of the whole move on every step
LinearQuantitiesUndivided(lastPosition, currentPosition, extrusionLength, segmentLength, unit, segmentSteps) ==
    [currentPosition |-> currentPosition,
     extrusionLength |-> extrusionLength,
     segmentLength   |-> segmentLength,
     segmentSteps    |-> segmentSteps,
     unit            |-> unit,
     extrusionLengthPerSegment |-> extrusionLength,
     segmentDirection |->
         IF segmentSteps = PosInf \/ segmentLength = R(0) THEN Point2D(NaN, NaN)
         ELSE Point2D(RMul(RDiv(RSub(currentPosition[1], lastPosition[1]), segmentLength), unit),
                      RMul(RDiv(RSub(currentPosition[2], lastPosition[2]), segmentLength), unit))]
LinearQuantities(lastPosition, currentPosition, extrusionLength, segmentLength, unit, segmentSteps) ==
    [currentPosition |-> currentPosition,
     extrusionLength |-> extrusionLength,
     segmentLength   |-> segmentLength,
     segmentSteps    |-> segmentSteps,
     unit            |-> unit,
     extrusionLengthPerSegment |->
         IF segmentSteps = PosInf THEN R(0)
         ELSE IF segmentSteps = R(0) THEN NaN
         ELSE RDiv(extrusionLength, segmentSteps),
     segmentDirection |->
         IF segmentSteps = PosInf \/ segmentLength = R(0) THEN Point2D(NaN, NaN)
         ELSE Point2D(RMul(RDiv(RSub(currentPosition[1], lastPosition[1]), segmentLength), unit),
                      RMul(RDiv(RSub(currentPosition[2], lastPosition[2]), segmentLength), unit))]

LinearCtxAt(s, l, c, segmentLength) ==
    LinearQuantities(s.lastPosition, getXY(l), l.e, segmentLength, UnitLength(c),
                     LinearSteps(segmentLength, UnitLength(c)))

LinearCtx(s, l, c) == LinearCtxAt(s, l, c, get_points_distance(s.lastPosition, getXY(l)))

\* the interpolation applied at every distance, also beyond gradient_thickness
StepFlowFactorUnclamped(shortestDistance, c) ==
    mapRange(<<R(0), c.gradient_thickness>>, <<Pct(c.max_flow), Pct(c.min_flow)>>, shortestDistance)
\* the flow factor of one step of a split LINEAR move
StepFlowFactor(shortestDistance, c) ==
    IF FLt(shortestDistance, c.gradient_thickness)
    THEN mapRange(<<R(0), c.gradient_thickness>>, <<Pct(c.max_flow), Pct(c.min_flow)>>, shortestDistance)
    ELSE Pct(c.min_flow)

\* segmentEnd of a step
StepEnd(s, x) ==
    Point2D(RAdd(s.lastPosition[1], x.segmentDirection[1]),
            RAdd(s.lastPosition[2], x.segmentDirection[2]))

\* min_distance_from_segment(Segment(lastPosition, end), perimeterSegments)
WallDistance(s, end) ==
    min_distance_from_segment(Segment(s.lastPosition, end), s.perimeterSegments)

\* writtenToFile is set at the end of a branch that did not raise
Written(s) == IF s.err # "none" THEN s ELSE [s EXCEPT !.w = TRUE]

(***************************************************************************)
(* OrcaGradientInfill.py                                                   *)
(***************************************************************************)
\* a layer change that keeps the walls of the layer before
OrcaLayerKeeps(s, l) ==
    IF l.k = "layer" /\ l.s = ";LAYER_CHANGE"
    THEN [s EXCEPT !.bound = @ \cup {"perimeterSegments"}]
    ELSE s
OrcaLayer(s, l) ==
    IF l.k = "layer" /\ l.s = ";LAYER_CHANGE"
    THEN [s EXCEPT !.perimeterSegments = <<>>, !.bound = @ \cup {"perimeterSegments"}]
    ELSE s

OrcaSection(l) ==
    IF l.s = "Inner wall" THEN "INNER_WALL"
    ELSE IF l.s = "Outer wall" THEN "NOTHING"
    ELSE IF l.s = "Sparse infill" THEN "INFILL"
    ELSE "NOTHING"

OrcaType(s, l) ==
    IF Running(s) /\ l.k = "type" /\ l.voc = ";TYPE:"
    THEN [EmitCurrent(s, l) EXCEPT !.ignore_pos = (l.s = "Custom"),
                                   !.currentSection = OrcaSection(l),
                                   !.w = TRUE, !.cont = TRUE]
    ELSE s

OrcaWall(s, l) ==
    IF Running(s) /\ s.currentSection = "INNER_WALL" /\ is_extrusion_line(l)
    THEN IF "perimeterSegments" \notin s.bound THEN Raise(s, "UnboundLocalError")
         ELSE IF XYRaises(l) THEN Raise(s, "SyntaxError")
         ELSE [s EXCEPT !.perimeterSegments = Append(@, Segment(getXY(l), s.lastPosition))]
    ELSE s

OrcaFeed(s, l) ==
    IF Running(s) /\ s.currentSection = "INFILL" /\ HasFeed(l)
    THEN LET s1 == [s EXCEPT !.infill_speed = l.f, !.infill_begin = TRUE,
                             !.bound = @ \cup {"infill_speed", "infill_begin"}]
         IN  IF HasE(l) THEN [EmitFeed(s1, l.f) EXCEPT !.w = TRUE] ELSE s1
    ELSE s

\* one pass of "for step in range(int(segmentSteps))"
OrcaStepAt(s, x, c, segmentEnd, shortestDistance) ==
    LET flow_factor      == StepFlowFactor(shortestDistance, c)
        segmentExtrusion == RMul(x.extrusionLengthPerSegment, flow_factor)
        cmd              == get_extrusion_command(segmentEnd[1], segmentEnd[2], segmentExtrusion)
    IN  IF "infill_flow" \notin s.bound THEN Raise(s, "UnboundLocalError")
        ELSE IF RLt(c.hotend_max_flow, RMul(s.infill_flow, flow_factor))
        THEN IF segmentExtrusion = R(0) THEN Raise(s, "ZeroDivisionError")
             ELSE [EmitMove(EmitOverride(s, control_flow(c.hotend_max_flow, segmentExtrusion, x.unit, c.d_f)),
                            cmd, flow_factor, "step", shortestDistance)
                    EXCEPT !.lastPosition = segmentEnd]
        ELSE IF s.is_old_speed
        THEN [EmitMove(s, cmd, flow_factor, "step", shortestDistance) EXCEPT !.lastPosition = segmentEnd]
        ELSE [EmitMove(EmitFeed(s, s.infill_speed), cmd, flow_factor, "step", shortestDistance)
                EXCEPT !.is_old_speed = TRUE, !.lastPosition = segmentEnd]

OrcaStep(s, x, c) ==
    IF "perimeterSegments" \notin s.bound THEN Raise(s, "UnboundLocalError")
    ELSE IF s.perimeterSegments = <<>> THEN Raise(s, "ValueError")
    ELSE OrcaStepAt(s, x, c, StepEnd(s, x), WallDistance(s, StepEnd(s, x)).min_value)

RECURSIVE OrcaSteps(_, _, _, _)
OrcaSteps(s, x, c, k) ==
    IF k = 0 \/ s.err # "none" THEN s ELSE OrcaSteps(OrcaStep(s, x, c), x, c, k - 1)

\* the move to currentPosition after the steps ("MissingSegment")
OrcaRemainder(s, x, c) ==
    IF s.err # "none" THEN s
    ELSE
    LET segmentLengthRatio == RDiv(get_points_distance(s.lastPosition, x.currentPosition), x.segmentLength)
        scaled == RDiv(RMul(x.extrusionLength, c.max_flow), R(100))
        cmd == get_extrusion_command(x.currentPosition[1], x.currentPosition[2],
                                     RMul(segmentLengthRatio, scaled))
    IN  IF RLt(c.hotend_max_flow, RMul(s.infill_flow, Pct(c.max_flow)))
        THEN IF scaled = R(0) THEN Raise(s, "ZeroDivisionError")
             ELSE EmitMove(EmitOverride(s, control_flow(c.hotend_max_flow, scaled, x.segmentLength, c.d_f)),
                           cmd, Pct(c.max_flow), "remainder", NaN)
        ELSE [EmitMove(s, cmd, Pct(c.max_flow), "remainder", NaN) EXCEPT !.edit = @ + 1]

\* the move that is not split (segmentSteps < 2)
OrcaUnsplit(s, l, x, c) ==
    LET scaled == RDiv(RMul(x.extrusionLength, c.max_flow), R(100))
        outPutLine == ReplaceE(l, scaled)
    IN  IF "infill_flow" \notin s.bound THEN Raise(s, "UnboundLocalError")
        ELSE IF RLt(c.hotend_max_flow, RMul(s.infill_flow, Pct(c.max_flow)))
        THEN IF scaled = R(0) THEN Raise(s, "ZeroDivisionError")
             ELSE [EmitMove(EmitOverride(s, control_flow(c.hotend_max_flow, scaled, x.segmentSteps, c.d_f)),
                            outPutLine, Pct(c.max_flow), "unsplit", NaN)
                    EXCEPT !.edit = @ + 2]
        ELSE [EmitMove(s, outPutLine, Pct(c.max_flow), "unsplit", NaN) EXCEPT !.edit = @ + 2]

OrcaLinearWith(s, l, x, c) ==
    IF x.segmentSteps = R(0) THEN Raise(s, "ZeroDivisionError")
    ELSE IF "infill_begin" \notin s.bound THEN Raise(s, "UnboundLocalError")
    ELSE
    LET s1 == IF s.infill_begin
              THEN [s EXCEPT !.infill_flow = InfillFlow(s.infill_speed, c.d_f, x.extrusionLength, x.segmentLength),
                             !.bound = @ \cup {"infill_flow"}]
              ELSE [s EXCEPT !.infill_begin = FALSE]
    IN  Written(IF RLe(R(2), x.segmentSteps)
                THEN OrcaRemainder(OrcaSteps(s1, x, c, RFloor(x.segmentSteps)), x, c)
                ELSE OrcaUnsplit(s1, l, x, c))

OrcaLinear(s, l, c) ==
    IF Running(s) /\ s.currentSection = "INFILL" /\ prog_extrusion(l) /\ c.infill_type = "LINEAR"
    THEN IF XYRaises(l) THEN Raise(s, "SyntaxError")
         ELSE OrcaLinearWith(s, l, LinearCtx(s, l, c), c)
    ELSE s

\* SMALL_SEGMENTS, shortestDistance < gradient_thickness
OrcaGradient(s, l, c, shortestDistance, segmentLength) ==
    LET flow_factor == mapRange(<<R(0), c.gradient_thickness>>,
                                <<Pct(c.max_flow), Pct(c.min_flow)>>, shortestDistance)
        newE == RMul(l.e, flow_factor)
    IN  IF "infill_begin" \notin s.bound THEN Raise(s, "UnboundLocalError")
        ELSE IF s.infill_begin /\ segmentLength = R(0) THEN Raise(s, "ZeroDivisionError")
        ELSE
        LET s1 == IF s.infill_begin
                  THEN LET f == InfillFlow(s.infill_speed, c.d_f, l.e, segmentLength)
                       IN  [s EXCEPT !.infill_flow = f,
                                     !.bound = @ \cup {"infill_flow"},
                                     !.diag = IF RLt(RAdd(c.hotend_max_flow, <<1, 2>>), f)
                                              THEN @ \cup {"FlowWarning", "input"} ELSE @]
                  ELSE [s EXCEPT !.infill_begin = FALSE]
            outPutLine == ReplaceE(l, newE)
        IN  IF "infill_flow" \notin s1.bound THEN Raise(s1, "UnboundLocalError")
            ELSE IF RLt(c.hotend_max_flow, RMul(s1.infill_flow, flow_factor))
            THEN IF RMul(newE, flow_factor) = R(0) THEN Raise(s1, "ZeroDivisionError")
                 ELSE [EmitMove(EmitOverride(s1, control_flow(c.hotend_max_flow, RMul(newE, flow_factor),
                                                              segmentLength, c.d_f)),
                                outPutLine, flow_factor, "gradient", shortestDistance)
                        EXCEPT !.edit = @ + 2, !.w = TRUE]
            ELSE IF s1.is_old_speed
            THEN [EmitMove(s1, outPutLine, flow_factor, "gradient", shortestDistance)
                   EXCEPT !.edit = @ + 2, !.w = TRUE]
            ELSE [EmitMove(EmitFeed(s1, s1.infill_speed), outPutLine, flow_factor, "gradient",
                           shortestDistance)
                   EXCEPT !.is_old_speed = TRUE, !.edit = @ + 2, !.w = TRUE]

OrcaSmallAt(s, l, c, shortestDistance) ==
    IF FLt(shortestDistance, c.gradient_thickness)
    THEN OrcaGradient(s, l, c, shortestDistance, get_points_distance(s.lastPosition, getXY(l)))
    ELSE IF c.thin_inner_core
    THEN [EmitMove(s, ReplaceE(l, RDiv(RMul(l.e, c.min_flow), R(100))), Pct(c.min_flow), "core",
                   shortestDistance)
           EXCEPT !.edit = @ + 2, !.w = TRUE]
    ELSE [s EXCEPT !.w = TRUE]

OrcaSmall(s, l, c) ==
    IF Running(s) /\ s.currentSection = "INFILL" /\ prog_extrusion(l) /\ c.infill_type = "SMALL_SEGMENTS"
    THEN IF XYRaises(l) THEN Raise(s, "SyntaxError")
         ELSE IF "perimeterSegments" \notin s.bound THEN Raise(s, "UnboundLocalError")
         ELSE IF s.perimeterSegments = <<>> THEN Raise(s, "ValueError")
         ELSE OrcaSmallAt(s, l, c, WallDistance(s, getXY(l)).min_value)
    ELSE s

OrcaMove(s, l) ==
    IF Running(s) /\ prog_move(l) /\ ~s.ignore_pos
    THEN IF XYRaises(l) THEN Raise(s, "SyntaxError")
         ELSE [s EXCEPT !.lastPosition = getXY(l)]
    ELSE s

OrcaWrite(s, l) ==
    IF Running(s) /\ ~s.w THEN EmitCurrent(s, l) ELSE s

\* the body of "for currentLine in gcodeFile"
OrcaLine(s, l, c) ==
    LET s0 == [s EXCEPT !.w = FALSE, !.cont = FALSE, !.unscaled = FALSE, !.out = <<>>, !.moves = <<>>]
    IN  OrcaWrite(OrcaMove(OrcaSmall(OrcaLinear(OrcaFeed(OrcaWall(OrcaType(OrcaLayer(s0, l), l), l), l), l, c), l, c), l), l)

(***************************************************************************)
(* Universal/universal_addGradientinfill.py                                *)
(***************************************************************************)
\* the is_... predicates branch on the global Slicer_Type and return None
\* (false) while it is SEARCH
is_begin_layer_line(slicer, l) ==
    /\ l.k = "layer"
    /\ \/ slicer \in {"ORCA", "PRUSA"} /\ l.s = ";LAYER_CHANGE"
       \/ slicer = "BAMBU" /\ l.s = "; CHANGE_LAYER"
       \/ slicer = "CURA" /\ l.s = ";LAYER:"

is_begin_inner_wall_line(slicer, l) ==
    /\ l.k = "type"
    /\ \/ slicer = "ORCA" /\ l.voc = ";TYPE:" /\ l.s = "Inner wall"
       \/ slicer = "PRUSA" /\ l.voc = ";TYPE:" /\ l.s = "Perimeter"
       \/ slicer = "BAMBU" /\ l.voc = "; FEATURE:" /\ l.s = "Inner wall"
       \/ slicer = "CURA" /\ l.voc = ";TYPE:" /\ l.s = "WALL-INNER"

is_begin_infill_segment_line(slicer, l) ==
    /\ l.k = "type"
    /\ \/ slicer = "ORCA" /\ l.voc = ";TYPE:" /\ l.s = "Sparse infill"
       \/ slicer = "PRUSA" /\ l.voc = ";TYPE:" /\ l.s = "Internal infill"
       \/ slicer = "BAMBU" /\ l.voc = "; FEATURE:" /\ l.s = "Sparse infill"
       \/ slicer = "CURA" /\ l.voc = ";TYPE:" /\ l.s = "FILL"

is_start_gcode(slicer, l) ==
    /\ l.k = "type"
    /\ \/ slicer \in {"ORCA", "PRUSA"} /\ l.voc = ";TYPE:" /\ l.s = "Custom"
       \/ slicer = "BAMBU" /\ l.voc = "; FEATURE:" /\ l.s = "Custom"

Cos15 == <<9659, 10000>>

\* is_collinear: the angle between the wall and the infill move is below 15
\* degrees, that is |cos| > cos(15 degrees); a zero length raises
\* ZeroDivisionError and counts as angle 0; a wall with an infinite endpoint
\* gives the angle NaN
is_collinear(wall, p_0, p_1) ==
    IF ~(PointFin(wall.point1) /\ PointFin(wall.point2) /\ PointFin(p_0) /\ PointFin(p_1)) THEN FALSE
    ELSE
    LET lw == get_points_distance(wall.point1, wall.point2)
        li == get_points_distance(p_0, p_1)
    IN  IF lw = R(0) \/ li = R(0) THEN TRUE
        ELSE
        LET dot_product ==
                RDiv(RAdd(RMul(RSub(wall.point2[1], wall.point1[1]), RSub(p_1[1], p_0[1])),
                          RMul(RSub(wall.point2[2], wall.point1[2]), RSub(p_1[2], p_0[2]))),
                     RMul(lw, li))
        IN  RLt(Cos15, RAbs(dot_product))

\* the slicer search at the head of the loop body
UniSearch(s, l, c) ==
    IF s.Slicer_Type = "SEARCH" /\ l.k = "banner"
    THEN IF l.s = "; generated by PrusaSlicer"
         THEN [s EXCEPT !.Slicer_Type = "PRUSA", !.prog_type = ";TYPE:", !.cont = c.remove_slicer_info]
         ELSE IF l.s = "; BambuStudio"
         THEN [s EXCEPT !.Slicer_Type = "BAMBU", !.prog_type = "; FEATURE:"]
         ELSE IF l.s = ";Generated with Cura_SteamEngine"
         THEN [s EXCEPT !.Slicer_Type = "CURA", !.prog_type = ";TYPE:"]
         ELSE IF l.s = "; generated by OrcaSlicer"
         THEN [s EXCEPT !.Slicer_Type = "ORCA", !.prog_type = ";TYPE:", !.cont = c.remove_slicer_info]
         ELSE s
    ELSE s

UniPrinterModel(s, l) ==
    IF Running(s) /\ s.Slicer_Type = "ORCA" /\ l.k = "model"
    THEN [s EXCEPT !.Slicer_Type = "BAMBU", !.prog_type = "; FEATURE:"]
    ELSE s

UniWidths(s, l) ==
    IF Running(s) /\ l.k = "width"
    THEN IF l.s \in {"; infill extrusion width = ", "; sparse_infill_line_width = "}
         THEN [s EXCEPT !.infill_linewidth = l.e, !.bound = @ \cup {"infill_linewidth"}]
         ELSE IF l.s \in {"; perimeters extrusion width = ", "; inner_wall_line_width = "}
         THEN [s EXCEPT !.inner_wall_linewidth = l.e, !.bound = @ \cup {"inner_wall_linewidth"}]
         ELSE s
    ELSE s

\* a layer change that also leaves the current section
UniLayerResetsSection(s, l) ==
    IF Running(s) /\ is_begin_layer_line(s.Slicer_Type, l)
    THEN [s EXCEPT !.perimeterSegments = <<>>, !.bound = @ \cup {"perimeterSegments"},
                   !.currentSection = "NOTHING"]
    ELSE s
UniLayer(s, l) ==
    IF Running(s) /\ is_begin_layer_line(s.Slicer_Type, l)
    THEN [s EXCEPT !.perimeterSegments = <<>>, !.bound = @ \cup {"perimeterSegments"}]
    ELSE s

UniSection(slicer, l) ==
    IF is_begin_inner_wall_line(slicer, l) THEN "INNER_WALL"
    ELSE IF is_begin_infill_segment_line(slicer, l) THEN "INFILL"
    ELSE "NOTHING"

UniType(s, l) ==
    IF Running(s) /\ l.k = "type" /\ l.voc = s.prog_type
    THEN IF s.Slicer_Type = "SEARCH" THEN Raise(s, "SyntaxError")
         ELSE [EmitCurrent(s, l) EXCEPT !.ignore_pos = is_start_gcode(s.Slicer_Type, l),
                                        !.currentSection = UniSection(s.Slicer_Type, l),
                                        !.cont = TRUE]
    ELSE IF Running(s) /\ IsArc(l) THEN Raise(s, "TypeError")
    ELSE s

UniWall(s, l) ==
    IF Running(s) /\ s.currentSection = "INNER_WALL" /\ is_extrusion_line(l)
    THEN IF "perimeterSegments" \notin s.bound THEN Raise(s, "UnboundLocalError")
         ELSE IF XYRaises(l) THEN Raise(s, "SyntaxError")
         ELSE [s EXCEPT !.perimeterSegments = Append(@, Segment(getXY(l), s.lastPosition))]
    ELSE s

UniFeed(s, l) ==
    IF Running(s) /\ s.currentSection = "INFILL" /\ HasFeed(l)
    THEN LET s1 == [s EXCEPT !.infill_speed = l.f, !.infill_begin = TRUE,
                             !.bound = @ \cup {"infill_speed", "infill_begin"}]
         IN  IF HasE(l) THEN EmitFeed(s1, l.f) ELSE s1
    ELSE s

UniStepAt(s, x, c, segmentEnd, shortestDistance) ==
    LET flow_factor      == StepFlowFactor(shortestDistance, c)
        segmentExtrusion == RMul(x.extrusionLengthPerSegment, flow_factor)
        cmd              == get_extrusion_command(segmentEnd[1], segmentEnd[2], segmentExtrusion)
    IN  IF ~({"infill_flow", "hotend_max_flow"} \subseteq s.bound) THEN Raise(s, "UnboundLocalError")
        ELSE IF RLt(c.hotend_max_flow, RMul(s.infill_flow, flow_factor))
        THEN IF segmentExtrusion = R(0) THEN Raise(s, "ZeroDivisionError")
             ELSE [EmitMove(EmitOverride(s, control_flow(c.hotend_max_flow, segmentExtrusion, x.unit, c.d_f)),
                            cmd, flow_factor, "step", shortestDistance)
                    EXCEPT !.is_old_speed = FALSE, !.lastPosition = segmentEnd]
        ELSE IF s.is_old_speed
        THEN [EmitMove(s, cmd, flow_factor, "step", shortestDistance) EXCEPT !.lastPosition = segmentEnd]
        ELSE [EmitMove(EmitFeed(s, s.infill_speed), cmd, flow_factor, "step", shortestDistance)
                EXCEPT !.is_old_speed = TRUE, !.lastPosition = segmentEnd]

UniStep(s, x, c) ==
    IF "perimeterSegments" \notin s.bound THEN Raise(s, "UnboundLocalError")
    ELSE IF s.perimeterSegments = <<>> THEN Raise(s, "ValueError")
    ELSE UniStepAt(s, x, c, StepEnd(s, x), WallDistance(s, StepEnd(s, x)).min_value)

RECURSIVE UniSteps(_, _, _, _)
UniSteps(s, x, c, k) ==
    IF k = 0 \/ s.err # "none" THEN s ELSE UniSteps(UniStep(s, x, c), x, c, k - 1)

\* the remainder written with the extrusion of the whole move
UniRemainderWhole(s, x, c) ==
    IF s.err # "none" THEN s
    ELSE
    LET scaled == RDiv(RMul(x.extrusionLength, c.max_flow), R(100))
        cmd == get_extrusion_command(x.currentPosition[1], x.currentPosition[2], scaled)
    IN  IF RLt(c.hotend_max_flow, RMul(s.infill_flow, Pct(c.max_flow)))
        THEN IF scaled = R(0) THEN Raise(s, "ZeroDivisionError")
             ELSE EmitMove(EmitOverride(s, control_flow(c.hotend_max_flow, scaled, x.segmentLength, c.d_f)),
                           cmd, Pct(c.max_flow), "remainder", NaN)
        ELSE EmitMove(s, cmd, Pct(c.max_flow), "remainder", NaN)
UniRemainder(s, x, c) ==
    IF s.err # "none" THEN s
    ELSE
    LET segmentLengthRatio == RDiv(get_points_distance(s.lastPosition, x.currentPosition), x.segmentLength)
        scaled == RDiv(RMul(x.extrusionLength, c.max_flow), R(100))
        cmd == get_extrusion_command(x.currentPosition[1], x.currentPosition[2],
                                     RMul(segmentLengthRatio, scaled))
    IN  IF RLt(c.hotend_max_flow, RMul(s.infill_flow, Pct(c.max_flow)))
        THEN IF scaled = R(0) THEN Raise(s, "ZeroDivisionError")
             ELSE EmitMove(EmitOverride(s, control_flow(c.hotend_max_flow, scaled, x.segmentLength, c.d_f)),
                           cmd, Pct(c.max_flow), "remainder", NaN)
        ELSE EmitMove(s, cmd, Pct(c.max_flow), "remainder", NaN)

UniUnsplit(s, l, x, c) ==
    LET scaled == RDiv(RMul(x.extrusionLength, c.max_flow), R(100))
        outPutLine == ReplaceE(l, scaled)
    IN  IF ~({"infill_flow", "hotend_max_flow"} \subseteq s.bound) THEN Raise(s, "UnboundLocalError")
        ELSE IF RLt(c.hotend_max_flow, RMul(s.infill_flow, Pct(c.max_flow)))
        THEN IF scaled = R(0) THEN Raise(s, "ZeroDivisionError")
             ELSE EmitMove(EmitOverride(s, control_flow(c.hotend_max_flow, scaled, x.segmentSteps, c.d_f)),
                           outPutLine, Pct(c.max_flow), "unsplit", NaN)
        ELSE EmitMove(s, outPutLine, Pct(c.max_flow), "unsplit", NaN)

UniLinearWith(s, l, x, c) ==
    IF x.segmentSteps = R(0) THEN Raise(s, "ZeroDivisionError")
    ELSE IF "infill_begin" \notin s.bound THEN Raise(s, "UnboundLocalError")
    ELSE
    LET s1 == IF s.infill_begin
              THEN [s EXCEPT !.infill_flow =
                                 IF x.segmentLength = PosInf THEN R(0)
                                 ELSE InfillFlow(s.infill_speed, c.d_f, x.extrusionLength, x.segmentLength),
                             !.infill_begin = FALSE,
                             !.bound = @ \cup {"infill_flow"}]
              ELSE s
    IN  Written(IF x.segmentSteps = PosInf THEN Raise(s1, "OverflowError")
                ELSE IF RLe(R(2), x.segmentSteps)
                THEN UniRemainder(UniSteps(s1, x, c, RFloor(x.segmentSteps)), x, c)
                ELSE UniUnsplit(s1, l, x, c))

UniLinear(s, l, c) == UniLinearWith(s, l, LinearCtx(s, l, c), c)

\* SMALL_SEGMENTS, shortestDistance < gradient_thickness
UniGradient(s, l, c, shortestDistance, collinear, segmentLength) ==
    IF ~({"infill_linewidth", "inner_wall_linewidth"} \subseteq s.bound) THEN Raise(s, "UnboundLocalError")
    ELSE
    LET critical_distance ==
            RDiv(RMul(RAdd(s.infill_linewidth, s.inner_wall_linewidth), <<7, 5>>), R(2))
        flow_factor == IF RLe(shortestDistance, critical_distance) /\ collinear THEN R(1)
                       ELSE mapRange(<<R(0), c.gradient_thickness>>,
                                     <<Pct(c.max_flow), Pct(c.min_flow)>>, shortestDistance)
        newE == RMul(l.e, flow_factor)
    IN  IF "infill_begin" \notin s.bound THEN Raise(s, "UnboundLocalError")
        ELSE IF s.infill_begin /\ segmentLength = R(0) THEN Raise(s, "ZeroDivisionError")
        ELSE IF s.infill_begin /\ "hotend_max_flow" \notin s.bound THEN Raise(s, "UnboundLocalError")
        ELSE
        LET s1 == IF s.infill_begin
                  THEN LET f == InfillFlow(s.infill_speed, c.d_f, l.e, segmentLength)
                       IN  [s EXCEPT !.infill_flow = f,
                                     !.infill_begin = FALSE,
                                     !.bound = @ \cup {"infill_flow"},
                                     !.diag = IF RLt(RAdd(c.hotend_max_flow, <<1, 2>>), f)
                                              THEN @ \cup {"FlowWarning", "input"} ELSE @]
                  ELSE s
            outPutLine == ReplaceE(l, newE)
        IN  IF ~({"infill_flow", "hotend_max_flow"} \subseteq s1.bound) THEN Raise(s1, "UnboundLocalError")
            ELSE IF RLt(c.hotend_max_flow, RMul(s1.infill_flow, flow_factor))
            THEN IF newE = R(0) THEN Raise(s1, "ZeroDivisionError")
                 ELSE [EmitMove(EmitOverride(s1, control_flow(c.hotend_max_flow, newE, segmentLength, c.d_f)),
                                outPutLine, flow_factor, "gradient", shortestDistance)
                        EXCEPT !.is_old_speed = FALSE, !.w = TRUE]
            ELSE IF s1.is_old_speed
            THEN [EmitMove(s1, outPutLine, flow_factor, "gradient", shortestDistance) EXCEPT !.w = TRUE]
            ELSE [EmitMove(EmitFeed(s1, s1.infill_speed), outPutLine, flow_factor, "gradient",
                           shortestDistance)
                   EXCEPT !.is_old_speed = TRUE, !.w = TRUE]

UniSmallAt(s, l, c, seg_info) ==
    IF FLt(seg_info.min_value, c.gradient_thickness)
    THEN UniGradient(s, l, c, seg_info.min_value,
                     is_collinear(seg_info.min_segment, s.lastPosition, getXY(l)),
                     get_points_distance(s.lastPosition, getXY(l)))
    ELSE IF c.thin_inner_core
    THEN [EmitMove(s, ReplaceE(l, RDiv(RMul(l.e, c.min_flow), R(100))), Pct(c.min_flow), "core",
                   seg_info.min_value)
           EXCEPT !.w = TRUE]
    ELSE [s EXCEPT !.unscaled = TRUE]

UniSmall(s, l, c) ==
    IF "perimeterSegments" \notin s.bound THEN Raise(s, "UnboundLocalError")
    ELSE IF s.perimeterSegments = <<>> THEN Raise(s, "ValueError")
    ELSE UniSmallAt(s, l, c, WallDistance(s, getXY(l)))

UniInfill(s, l, c) ==
    IF Running(s) /\ s.currentSection = "INFILL" /\ prog_extrusion(l)
    THEN IF XYRaises(l) THEN Raise(s, "SyntaxError")
         ELSE IF "infill_type" \notin s.bound THEN Raise(s, "UnboundLocalError")
         ELSE IF c.infill_type = "LINEAR" THEN UniLinear(s, l, c)
         ELSE UniSmall(s, l, c)
    ELSE s

\* the position tracked only inside a wall or infill section
UniMoveInSection(s, l) ==
    IF Running(s) /\ prog_move(l) /\ ~s.ignore_pos /\ s.currentSection # "NOTHING"
    THEN IF XYRaises(l) THEN Raise(s, "SyntaxError")
         ELSE [s EXCEPT !.lastPosition = getXY(l)]
    ELSE s
UniMove(s, l) ==
    IF Running(s) /\ prog_move(l) /\ ~s.ignore_pos
    THEN IF XYRaises(l) THEN Raise(s, "SyntaxError")
         ELSE [s EXCEPT !.lastPosition = getXY(l)]
    ELSE s

UniWrite(s, l) ==
    IF Running(s)
    THEN IF ~s.w
         THEN IF s.unscaled THEN NoteMove(EmitCurrent(s, l), R(1), "unscaled", NaN) ELSE EmitCurrent(s, l)
         ELSE [s EXCEPT !.edit = @ + 1]
    ELSE s

\* the body of "for currentLine in gcode"
UniversalLine(s, l, c) ==
    LET s0 == [s EXCEPT !.w = FALSE, !.cont = FALSE, !.unscaled = FALSE, !.out = <<>>, !.moves = <<>>]
    IN  UniWrite(UniMove(UniInfill(UniFeed(UniWall(UniType(UniLayer(UniWidths(UniPrinterModel(
            UniSearch(s0, l, c), l), l), l), l), l), l), l, c), l), l)

(***************************************************************************)
(* Prusa/prusa_addGradientinfill.py                                        *)
(***************************************************************************)
PrusaFirstLine(s) ==
    IF s.first_line THEN [s EXCEPT !.first_line = FALSE, !.cont = TRUE] ELSE s

PrusaLayer(s, l) ==
    IF Running(s) /\ l.k = "layer" /\ l.s = ";LAYER_CHANGE"
    THEN [s EXCEPT !.perimeterSegments = <<>>, !.bound = @ \cup {"perimeterSegments"},
                   !.layer_count = @ + 1]
    ELSE s

Active(s, c) == Running(s) /\ s.layer_count > c.bottom_layers

PrusaType(s, l, c) ==
    IF Active(s, c) /\ l.k = "type" /\ l.voc = ";TYPE:"
    THEN IF l.s = "Perimeter" THEN [s EXCEPT !.currentSection = "INNER_WALL"]
         ELSE IF l.s = "External perimeter"
         THEN [s EXCEPT !.currentSection = "INNER_WALL", !.cont = TRUE]
         ELSE IF l.s = "Internal infill"
         THEN [EmitCurrent(s, l) EXCEPT !.currentSection = "INFILL", !.cont = TRUE]
         ELSE [s EXCEPT !.currentSection = "NOTHING"]
    ELSE s

PrusaWall(s, l, c) ==
    IF Active(s, c) /\ s.currentSection = "INNER_WALL"
    THEN LET s1 == [s EXCEPT !.w = TRUE]
         IN  IF is_extrusion_line(l)
             THEN IF "perimeterSegments" \notin s.bound THEN Raise(s1, "UnboundLocalError")
                  ELSE IF XYRaises(l) THEN Raise(s1, "SyntaxError")
                  ELSE [s1 EXCEPT !.perimeterSegments = Append(@, Segment(getXY(l), s.lastPosition))]
             ELSE s1
    ELSE s

PrusaFeed(s, l, c) ==
    IF Active(s, c) /\ s.currentSection = "INFILL" /\ HasFeed(l)
    THEN EmitFeed(s, l.f)
    ELSE s

PrusaStepAt(s, x, c, segmentEnd, shortestDistance) ==
    LET flow_factor      == StepFlowFactor(shortestDistance, c)
        segmentExtrusion == RMul(x.extrusionLengthPerSegment, flow_factor)
    IN  [EmitMove(s, get_extrusion_command(segmentEnd[1], segmentEnd[2], segmentExtrusion),
                  flow_factor, "step", shortestDistance)
           EXCEPT !.lastPosition = segmentEnd]

\* dist of the Prusa script divides by float(norm) without a try: a wall
\* segment of length zero raises ZeroDivisionError
PrusaDistRaises(segment) ==
    /\ PointFin(segment.point1) /\ PointFin(segment.point2)
    /\ segment.point1 = segment.point2

\* min(dist(s, middlePoint) for s in segments) calls dist on every segment
PrusaWallsRaise(segments) ==
    \E i \in 1..Len(segments) : PrusaDistRaises(segments[i])

PrusaStep(s, x, c) ==
    IF "perimeterSegments" \notin s.bound THEN Raise(s, "UnboundLocalError")
    ELSE IF s.perimeterSegments = <<>> THEN Raise(s, "ValueError")
    ELSE IF PrusaWallsRaise(s.perimeterSegments) THEN Raise(s, "ZeroDivisionError")
    ELSE PrusaStepAt(s, x, c, StepEnd(s, x), WallDistance(s, StepEnd(s, x)).min_value)

RECURSIVE PrusaSteps(_, _, _, _)
PrusaSteps(s, x, c, k) ==
    IF k = 0 \/ s.err # "none" THEN s ELSE PrusaSteps(PrusaStep(s, x, c), x, c, k - 1)

PrusaRemainder(s, x, c) ==
    IF s.err # "none" THEN s
    ELSE
    LET segmentLengthRatio == RDiv(get_points_distance(s.lastPosition, x.currentPosition), x.segmentLength)
    IN  EmitMove(s, get_extrusion_command(x.currentPosition[1], x.currentPosition[2],
                        RMul(segmentLengthRatio, RDiv(RMul(x.extrusionLength, c.max_flow), R(100)))),
                 Pct(c.max_flow), "remainder", NaN)

PrusaLinearWith(s, l, x, c) ==
    IF x.segmentSteps = R(0) THEN Raise(s, "ZeroDivisionError")
    ELSE Written(IF RLe(R(2), x.segmentSteps)
                 THEN PrusaRemainder(PrusaSteps(s, x, c, RFloor(x.segmentSteps)), x, c)
                 ELSE EmitMove(s, ReplaceE(l, RDiv(RMul(x.extrusionLength, c.max_flow), R(100))),
                               Pct(c.max_flow), "unsplit", NaN))

PrusaLinear(s, l, c) == PrusaLinearWith(s, l, LinearCtx(s, l, c), c)

PrusaSmallAt(s, l, c, shortestDistance) ==
    IF FLt(shortestDistance, c.gradient_thickness)
    THEN LET flow_factor == mapRange(<<R(0), c.gradient_thickness>>,
                                     <<Pct(c.max_flow), Pct(c.min_flow)>>, shortestDistance)
         IN  [EmitMove(s, ReplaceE(l, RMul(l.e, flow_factor)), flow_factor, "gradient", shortestDistance)
                EXCEPT !.w = TRUE]
    ELSE [s EXCEPT !.unscaled = TRUE]

PrusaSmall(s, l, c) ==
    IF "perimeterSegments" \notin s.bound THEN Raise(s, "UnboundLocalError")
    ELSE IF s.perimeterSegments = <<>> THEN Raise(s, "ValueError")
    ELSE IF PrusaWallsRaise(s.perimeterSegments) THEN Raise(s, "ZeroDivisionError")
    ELSE PrusaSmallAt(s, l, c, WallDistance(s, getXY(l)).min_value)

PrusaInfill(s, l, c) ==
    IF Active(s, c) /\ s.currentSection = "INFILL" /\ prog_extrusion(l)
    THEN IF XYRaises(l) THEN Raise(s, "SyntaxError")
         ELSE IF c.infill_type = "LINEAR" THEN PrusaLinear(s, l, c)
         ELSE PrusaSmall(s, l, c)
    ELSE s

PrusaMove(s, l, c) ==
    IF Active(s, c) /\ prog_move(l)
    THEN IF XYRaises(l) THEN Raise(s, "SyntaxError")
         ELSE [s EXCEPT !.lastPosition = getXY(l)]
    ELSE s

PrusaWrite(s, l) ==
    IF Running(s)
    THEN IF ~s.w
         THEN IF s.unscaled THEN NoteMove(EmitCurrent(s, l), R(1), "unscaled", NaN) ELSE EmitCurrent(s, l)
         ELSE [s EXCEPT !.edit = @ + 1]
    ELSE s

\* the body of "for currentLine in gcodeFile"
PrusaLine(s, l, c) ==
    LET s0 == [s EXCEPT !.w = FALSE, !.cont = FALSE, !.unscaled = FALSE, !.out = <<>>, !.moves = <<>>]
    IN  PrusaWrite(PrusaMove(PrusaInfill(PrusaFeed(PrusaWall(PrusaType(PrusaLayer(
            PrusaFirstLine(s0), l), l, c), l, c), l, c), l, c), l, c), l)

(***************************************************************************)
(* State                                                                   *)
(***************************************************************************)
VARIABLES
    cfg,      \* the script that runs, its parameters and the shape of the input file
    st,       \* the local variables of process_gcode (and the global Slicer_Type)
    lines,    \* the module level list "lines"
    gcode,    \* the lines of the input file read so far by the current run
    outFile,  \* the output file: <<"untouched">>, or the sequence of texts written
    phase,    \* "running", "done" (the pass completed) or "aborted" (an exception)
    run,      \* the number of the current invocation of process_gcode
    probe     \* arguments and result of a function evaluated on its own

vars == <<cfg, st, lines, gcode, outFile, phase, run, probe>>

\* lastPosition before the first move
StartPosition(variant) ==
    IF variant = "Universal" THEN Point2D(NegInf, NegInf) ELSE Point2D(R(-10000), R(-10000))

\* the local variables at the start of the loop over the lines
Locals(c) ==
    [err |-> "none", cont |-> FALSE, w |-> FALSE, unscaled |-> FALSE, out |-> <<>>, moves |-> <<>>,
     diag |-> {},
     edit |-> 0,
     ignore_pos |-> TRUE,
     is_old_speed |-> FALSE,
     currentSection |-> "NOTHING",
     lastPosition |-> StartPosition(c.variant),
     perimeterSegments |-> <<>>,
     infill_speed |-> Absent,
     infill_begin |-> FALSE,
     infill_flow |-> Absent,
     infill_linewidth |-> Absent,
     inner_wall_linewidth |-> Absent,
     layer_count |-> 1,
     first_line |-> (c.variant = "Prusa" /\ c.remove_slicer_info),
     Slicer_Type |-> c.Slicer_Type,
     prog_type |-> IF c.Slicer_Type = "BAMBU" THEN "; FEATURE:" ELSE ";TYPE:",
     bound |-> c.found]

(***************************************************************************)
(* Input files.  A file is a prologue (cfg.prologue, possibly empty)       *)
(* followed by at most MaxTail lines of cfg.alphabet.  The settings block  *)
(* that the Universal script scans backwards for the flow limit and the    *)
(* infill pattern is not among these lines; cfg.found tells what the scan  *)
(* found.                                                                  *)
(***************************************************************************)
MaxTail == 2

PA == Point2D(R(0), R(0))
PB == Point2D(R(4), R(0))
PC == Point2D(R(4), R(3))
PD == Point2D(R(0), R(3))

Feed1 == R(1200)

Travel(p)    == GLine("G0", p[1], p[2], Absent, Absent)
Extrude(p)   == GLine("G1", p[1], p[2], R(1), Absent)
ExtrudeF(p)  == GLine("G1", p[1], p[2], R(1), Feed1)
Retraction   == GLine("G1", Absent, Absent, <<-4, 5>>, R(2100))
FeedOnly     == GLine("G1", Absent, Absent, Absent, Feed1)
ArcMove      == GLine("G2", R(1), R(1), R(1), Absent)
NegativeMove == GLine("G1", Bad, R(3), R(1), Absent)
Comment      == TextLine("; comment")
OrcaBanner   == BannerLine("; generated by OrcaSlicer")
InfillWidth  == WidthLine("; sparse_infill_line_width = ", <<9, 20>>)
WallWidth    == WidthLine("; inner_wall_line_width = ", <<9, 20>>)

CommonLines ==
    {Travel(PA), Extrude(PB), Extrude(PD), ExtrudeF(PC), FeedOnly, Retraction,
     ArcMove, NegativeMove, Comment}

OrcaMarkers ==
    {LayerLine(";LAYER_CHANGE"), TypeLine(";TYPE:", "Inner wall"),
     TypeLine(";TYPE:", "Sparse infill"), TypeLine(";TYPE:", "Custom")}

OrcaAlphabet == CommonLines \cup OrcaMarkers

UniversalAlphabet ==
    CommonLines \cup OrcaMarkers \cup {TypeLine("; FEATURE:", "Sparse infill"), OrcaBanner}

PrusaAlphabet ==
    CommonLines \cup
    {LayerLine(";LAYER_CHANGE"), TypeLine(";TYPE:", "Perimeter"),
     TypeLine(";TYPE:", "External perimeter"), TypeLine(";TYPE:", "Internal infill"),
     TypeLine(";TYPE:", "Custom")}

\* a layer with the wall PA - PB, up to the infill marker
OrcaLayerHead ==
    <<LayerLine(";LAYER_CHANGE"), TypeLine(";TYPE:", "Inner wall"), Travel(PA), Extrude(PB),
      TypeLine(";TYPE:", "Sparse infill")>>

PrusaLayerHead ==
    <<Comment, LayerLine(";LAYER_CHANGE"), TypeLine(";TYPE:", "Perimeter"), Travel(PA), Extrude(PB),
      TypeLine(";TYPE:", "Internal infill")>>

NextLines ==
    IF Len(gcode) < Len(cfg.prologue) THEN {cfg.prologue[Len(gcode) + 1]}
    ELSE IF Len(gcode) < Len(cfg.prologue) + MaxTail THEN cfg.alphabet
    ELSE {}

(***************************************************************************)
(* Parameters of a run                                                     *)
(***************************************************************************)
Params(variant, slicer, infill_type, thin, hotend, found, remove, bottom, prologue, alphabet) ==
    [variant |-> variant,
     Slicer_Type |-> slicer,
     infill_type |-> infill_type,
     max_flow |-> R(200),
     min_flow |-> R(50),
     gradient_thickness |-> R(2),
     gradient_discretization |-> R(2),
     hotend_max_flow |-> hotend,
     d_f |-> <<7, 4>>,
     thin_inner_core |-> thin,
     found |-> found,
     remove_slicer_info |-> remove,
     bottom_layers |-> bottom,
     prologue |-> prologue,
     alphabet |-> alphabet]

InfillTypes == {"SMALL_SEGMENTS", "LINEAR"}
FlowLimits == {R(20), R(7)}
Found == {"hotend_max_flow", "infill_type"}

\* the prefixes of a sequence of the given lengths
Prefixes(seq, lens) == {SubSeq(seq, 1, n) : n \in lens}

OrcaPrologues == Prefixes(OrcaLayerHead \o <<ExtrudeF(PC)>>, {0, 2, 5, 6})

UniversalPrologues(slicer) ==
    IF slicer = "SEARCH"
    THEN Prefixes(<<OrcaBanner, InfillWidth, WallWidth>> \o OrcaLayerHead \o <<ExtrudeF(PC)>>, {0, 1, 8, 9})
    ELSE Prefixes(<<InfillWidth, WallWidth>> \o OrcaLayerHead \o <<ExtrudeF(PC)>>, {0, 4, 7, 8})
         \cup {OrcaLayerHead}

PrusaPrologues == Prefixes(PrusaLayerHead \o <<ExtrudeF(PC)>>, {0, 3, 6, 7})

OrcaParams ==
    {Params("Orca", "ORCA", it, thin, hot, Found, FALSE, 0, pro, OrcaAlphabet) :
        it \in InfillTypes, thin \in BOOLEAN, hot \in FlowLimits, pro \in OrcaPrologues}

UniversalParams ==
    {Params("Universal", "SEARCH", it, thin, hot, Found, FALSE, 0, pro, UniversalAlphabet) :
        it \in InfillTypes, thin \in BOOLEAN, hot \in FlowLimits, pro \in UniversalPrologues("SEARCH")}
    \cup
    {Params("Universal", "ORCA", it, thin, hot, Found, FALSE, 0, pro, UniversalAlphabet) :
        it \in InfillTypes, thin \in BOOLEAN, hot \in FlowLimits, pro \in UniversalPrologues("ORCA")}
    \cup
    {Params("Universal", "SEARCH", it, TRUE, R(20), Found, TRUE, 0, pro, UniversalAlphabet) :
        it \in InfillTypes, pro \in {<<>>, <<OrcaBanner>>}}

PrusaParams ==
    {Params("Prusa", "PRUSA", it, FALSE, R(0), {"infill_type"}, rm, bottom, pro, PrusaAlphabet) :
        it \in InfillTypes, rm \in BOOLEAN, bottom \in {0, 1}, pro \in PrusaPrologues}

Start(c) ==
    /\ cfg = c
    /\ st = Locals(c)
    /\ lines = <<>>
    /\ gcode = <<>>
    /\ outFile = <<"untouched">>
    /\ phase = "running"
    /\ run = 1
    /\ probe = <<>>

InitOrca == \E c \in OrcaParams : Start(c)
InitUniversal == \E c \in UniversalParams : Start(c)
InitPrusa == \E c \in PrusaParams : Start(c)
Init == InitOrca \/ InitUniversal \/ InitPrusa

(***************************************************************************)
(* Actions                                                                 *)
(***************************************************************************)
Body(s, l, c) ==
    IF c.variant = "Orca" THEN OrcaLine(s, l, c)
    ELSE IF c.variant = "Universal" THEN UniversalLine(s, l, c)
    ELSE PrusaLine(s, l, c)

\* what the loop body appends to lines while line number n is processed
Appended(s, n) ==
    [i \in 1..Len(s.out) |-> Out(s.out[i][1], s.out[i][2], run, IF s.out[i][2] = "copy" THEN n ELSE 0)]

\* an exception leaves process_gcode (there is no try inside it); swallowing
\* it would let the loop go on to the next line
PhaseAfterSwallow(s) == "running"
\* the loop goes on to the next line unless an exception leaves process_gcode
PhaseAfter(s) == IF s.err = "none" THEN "running" ELSE "aborted"

\* the end of an iteration that read line l and left the local variables s
Iterated(l, s) ==
    /\ gcode' = Append(gcode, l)
    /\ lines' = lines \o Appended(s, Len(gcode) + 1)
    /\ st' = [s EXCEPT !.out = <<>>, !.w = FALSE, !.cont = FALSE, !.unscaled = FALSE,
                        !.moves = [i \in 1..Len(s.moves) |-> [s.moves[i] EXCEPT !.at = @ + Len(lines)]]]
    /\ phase' = PhaseAfter(s)

\* one iteration of the loop over the lines of the input file
ProcessLine ==
    /\ phase = "running"
    /\ \E l \in NextLines : Iterated(l, Body(st, l, cfg))
    /\ UNCHANGED <<cfg, outFile, run, probe>>

\* "with open(output_file_name, 'w')": every element of lines is written
WriteLines(ls) == [i \in 1..Len(ls) |-> ls[i].txt]

\* the end of the input file: the output file is written, then the edit
\* counter is looked at
Finish ==
    /\ phase = "running"
    /\ Len(gcode) >= Len(cfg.prologue)
    /\ outFile' = WriteLines(lines)
    /\ st' = [st EXCEPT !.diag = IF st.edit = 0 THEN @ \cup {"NoChanges"} ELSE @]
    /\ phase' = "done"
    /\ UNCHANGED <<cfg, lines, gcode, run, probe>>

Next == ProcessLine \/ Finish

Spec == Init /\ [][Next]_vars
SpecOrca == InitOrca /\ [][Next]_vars
SpecUniversal == InitUniversal /\ [][Next]_vars
SpecPrusa == InitPrusa /\ [][Next]_vars

(***************************************************************************)
(* The window of OrcaGradientInfill.py.  run_processor catches the         *)
(* exception of process_gcode and shows it; the window stays open and the  *)
(* button calls process_gcode again, in the same interpreter.  After a     *)
(* completed pass the window is destroyed.                                 *)
(***************************************************************************)
MaxRuns == 2

GuiAlphabet ==
    {Comment, Travel(PA), NegativeMove, ExtrudeF(PC), TypeLine(";TYPE:", "Sparse infill")}

GuiParams ==
    {Params("Orca", "ORCA", "SMALL_SEGMENTS", thin, R(20), Found, FALSE, 0, <<>>, GuiAlphabet) :
        thin \in BOOLEAN}

InitGui == \E c \in GuiParams : Start(c)

\* the button is pressed again after an error: a new call of process_gcode,
\* with new local variables; the module level list is the same object
Rerun ==
    /\ phase = "aborted"
    /\ cfg.variant = "Orca"
    /\ run < MaxRuns
    /\ run' = run + 1
    /\ st' = Locals(cfg)
    /\ gcode' = <<>>
    /\ phase' = "running"
    /\ UNCHANGED <<cfg, lines, outFile, probe>>

NextGui == ProcessLine \/ Finish \/ Rerun

SpecGui == InitGui /\ [][NextGui]_vars

(***************************************************************************)
(* Runs with max_flow below 100: the factor 1.0 of the collinearity guard  *)
(* of the Universal script is then outside [min_flow/100, max_flow/100].   *)
(* The input is one layer with the wall PA - PB up to the infill marker,   *)
(* followed by infill lines near to and far from the wall.                 *)
(***************************************************************************)
LowFlowAlphabet ==
    {FeedOnly, ExtrudeF(PA), Extrude(PA), ExtrudeF(PD), Extrude(PD), Travel(PC), Comment}

LowFlow(c) == [c EXCEPT !.max_flow = R(90)]

LowFlowParams ==
    {LowFlow(Params("Universal", "ORCA", it, thin, R(20), Found, FALSE, 0,
                    <<InfillWidth, WallWidth>> \o OrcaLayerHead, LowFlowAlphabet)) :
        it \in InfillTypes, thin \in BOOLEAN}
    \cup
    {LowFlow(Params("Orca", "ORCA", it, thin, R(20), Found, FALSE, 0, OrcaLayerHead, LowFlowAlphabet)) :
        it \in InfillTypes, thin \in BOOLEAN}
    \cup
    {LowFlow(Params("Prusa", "PRUSA", it, FALSE, R(0), {"infill_type"}, FALSE, 0, PrusaLayerHead,
                    LowFlowAlphabet)) :
        it \in InfillTypes}

InitLowFlow == \E c \in LowFlowParams : Start(c)

SpecLowFlow == InitLowFlow /\ [][Next]_vars

(***************************************************************************)
(* Runs with one discretization step per gradient_thickness: the step is   *)
(* 2 mm long, so that a move of 5 mm is split into 2 steps and a remainder *)
(* of 1 mm, and a move of 3 mm is not split.                               *)
(***************************************************************************)
CoarseAlphabet ==
    {FeedOnly, Travel(PA), Travel(PC), ExtrudeF(PB), ExtrudeF(PC), Extrude(PC), ExtrudeF(PD),
     Extrude(PD), Comment}

Coarse(c) == [c EXCEPT !.gradient_discretization = R(1)]

CoarseParams ==
    {Coarse(Params("Universal", "ORCA", "LINEAR", thin, h, Found, FALSE, 0,
                   <<InfillWidth, WallWidth>> \o OrcaLayerHead, CoarseAlphabet)) :
        thin \in BOOLEAN, h \in {R(20), R(7)}}
    \cup
    {Coarse(Params("Orca", "ORCA", "LINEAR", thin, h, Found, FALSE, 0, OrcaLayerHead, CoarseAlphabet)) :
        thin \in BOOLEAN, h \in {R(20), R(7)}}
    \cup
    {Coarse(Params("Prusa", "PRUSA", "LINEAR", FALSE, R(0), {"infill_type"}, FALSE, 0, PrusaLayerHead,
                   CoarseAlphabet))}

InitCoarse == \E c \in CoarseParams : Start(c)

SpecCoarse == InitCoarse /\ [][Next]_vars

(***************************************************************************)
(* Runs that leave the wall and infill sections again: files with the      *)
(* outer-wall marker and the start-gcode marker after the layer head.      *)
(***************************************************************************)
TrackingAlphabet ==
    {TypeLine(";TYPE:", "Outer wall"), TypeLine(";TYPE:", "Custom"), TypeLine(";TYPE:", "Sparse infill"),
     LayerLine(";LAYER_CHANGE"), Travel(PA), Extrude(PD), ExtrudeF(PC), Comment}

TrackingParams ==
    {Params("Universal", "ORCA", it, FALSE, R(20), Found, FALSE, 0,
            <<InfillWidth, WallWidth>> \o OrcaLayerHead, TrackingAlphabet) : it \in InfillTypes}
    \cup
    {Params("Orca", "ORCA", it, FALSE, R(20), Found, FALSE, 0, OrcaLayerHead, TrackingAlphabet) :
        it \in InfillTypes}

InitTracking == \E c \in TrackingParams : Start(c)

SpecTracking == InitTracking /\ [][Next]_vars

(***************************************************************************)
(* Files of the Universal script whose settings comments (line widths,     *)
(* printer model) stand after the first layer, as in the settings block a  *)
(* slicer writes at the end of the file.                                   *)
(***************************************************************************)
DetectAlphabet ==
    {ModelLine, InfillWidth, WallWidth, OrcaBanner, ExtrudeF(PC), Comment,
     TypeLine(";TYPE:", "Sparse infill"), TypeLine("; FEATURE:", "Sparse infill")}

DetectParams ==
    {Params("Universal", "SEARCH", it, FALSE, R(20), found, FALSE, 0, pro, DetectAlphabet) :
        it \in InfillTypes, found \in {Found},
        pro \in {<<OrcaBanner>> \o OrcaLayerHead, <<OrcaBanner, InfillWidth, WallWidth>> \o OrcaLayerHead}}

InitDetect == \E c \in DetectParams : Start(c)

SpecDetect == InitDetect /\ [][Next]_vars

(***************************************************************************)
(* Runs with a gradient thinner than the critical distance next to a wall: *)
(* gradient_thickness 0.5 mm, line widths 0.45 mm (critical distance       *)
(* 0.63 mm), and infill moves 0.6 mm above the wall PA - PB.               *)
(***************************************************************************)
PE == Point2D(R(0), <<3, 5>>)
PF == Point2D(R(4), <<3, 5>>)

ThinBandAlphabet ==
    {FeedOnly, Travel(PE), Travel(PA), ExtrudeF(PF), Extrude(PF), Extrude(PB), ExtrudeF(PC), Comment}

ThinBand(c) == [c EXCEPT !.gradient_thickness = <<1, 2>>]

ThinBandParams ==
    {ThinBand(Params("Universal", "ORCA", "SMALL_SEGMENTS", thin, h, Found, FALSE, 0,
                     <<InfillWidth, WallWidth>> \o OrcaLayerHead, ThinBandAlphabet)) :
        thin \in BOOLEAN, h \in FlowLimits}

InitThinBand == \E c \in ThinBandParams : Start(c)

SpecThinBand == InitThinBand /\ [][Next]_vars

(***************************************************************************)
(* mapRange on its own: the arguments the scripts call it with, (0, T),    *)
(* (max_flow / 100, min_flow / 100), at two distances d1 and d2 in [0, T]  *)
(***************************************************************************)
MaxT == 3

ProbeFlows == {R(50), R(100), R(200)}

\* the multiples of 1/2 in [0, t]
ProbeDistances(t) == {RDiv(R(k), R(2)) : k \in 0..(2 * t)}

ProbeInputs ==
    {[T |-> R(t), max_flow |-> mx, min_flow |-> mn, d1 |-> d1, d2 |-> d2,
      out1 |-> Absent, out2 |-> Absent, done |-> FALSE] :
        t \in 1..MaxT, mx \in ProbeFlows, mn \in ProbeFlows,
        d1 \in ProbeDistances(MaxT), d2 \in ProbeDistances(MaxT)}

InitMapRange ==
    /\ cfg \in GuiParams
    /\ st = Locals(cfg)
    /\ lines = <<>>
    /\ gcode = <<>>
    /\ outFile = <<"untouched">>
    /\ phase = "probe"
    /\ run = 1
    /\ probe \in {p \in ProbeInputs :
                     RLe(p.min_flow, p.max_flow) /\ RLe(p.d1, p.T) /\ RLe(p.d2, p.T)}

Evaluate ==
    /\ phase = "probe"
    /\ ~probe.done
    /\ probe' = [probe EXCEPT
                    !.out1 = mapRange(<<R(0), probe.T>>, <<Pct(probe.max_flow), Pct(probe.min_flow)>>, probe.d1),
                    !.out2 = mapRange(<<R(0), probe.T>>, <<Pct(probe.max_flow), Pct(probe.min_flow)>>, probe.d2),
                    !.done = TRUE]
    /\ UNCHANGED <<cfg, st, lines, gcode, outFile, phase, run>>

NextMapRange == Evaluate

SpecMapRange == InitMapRange /\ [][NextMapRange]_vars

(***************************************************************************)
(* dist on its own, as each script defines it: a segment and a point with  *)
(* coordinates in 0..MaxCoord                                              *)
(***************************************************************************)
MaxCoord == 1

Variants == {"Universal", "Orca", "Prusa"}

DistPoints == {Point2D(R(x), R(y)) : x \in 0..MaxCoord, y \in 0..MaxCoord}

DistInputs ==
    {[variant |-> v, segment |-> Segment(p1, p2), point |-> q,
      out |-> Absent, err |-> "none", done |-> FALSE] :
        v \in Variants, p1 \in DistPoints, p2 \in DistPoints, q \in DistPoints}

InitDist ==
    /\ cfg \in GuiParams
    /\ st = Locals(cfg)
    /\ lines = <<>>
    /\ gcode = <<>>
    /\ outFile = <<"untouched">>
    /\ phase = "probe"
    /\ run = 1
    /\ probe \in DistInputs

\* dist(segment, point) of the script probe.variant
EvaluateDist ==
    /\ phase = "probe"
    /\ ~probe.done
    /\ probe' = IF probe.variant = "Prusa" /\ PrusaDistRaises(probe.segment)
                 THEN [probe EXCEPT !.err = "ZeroDivisionError", !.done = TRUE]
                 ELSE [probe EXCEPT !.out = dist(probe.segment, probe.point), !.done = TRUE]
    /\ UNCHANGED <<cfg, st, lines, gcode, outFile, phase, run>>

NextDist == EvaluateDist

SpecDist == InitDist /\ [][NextDist]_vars

(***************************************************************************)
(* The text of a rewritten infill move.  currentLine.split(" ") gives the  *)
(* tokens of the line, the last one with the line terminator on it; the    *)
(* rewritten line is put together from pieces: tokens, " " and "\n".       *)
(* "E*" stands for "E" + str(round(newE, 5)).                              *)
(***************************************************************************)
MaxExtra == 3

Blank == {" ", "\n"}

\* "E" in element
ContainsE(tok) == tok \in {"E1", "WIPE_END"}

\* float(element[1:]) raises ValueError
FloatRaises(tok) == tok = "WIPE_END"

\* the tokens after "G1 X4 Y3": one E token, and feed and comment tokens
ExtraTokens(n) ==
    {r \in [1..n -> {"E1", "F1200", ";", "WIPE_END"}] : Cardinality({i \in 1..n : r[i] = "E1"}) = 1}

RewriteInputs ==
    {[branch |-> b, line |-> <<"G1", "X4", "Y3">> \o r, out |-> <<>>, err |-> "none", done |-> FALSE] :
        b \in {"gradient", "core", "unsplit"}, r \in UNION {ExtraTokens(n) : n \in 1..MaxExtra}}

\* the pieces of element i of splitLine
Element(line, i) == IF i = Len(line) THEN <<line[i], "\n">> ELSE <<line[i]>>

\* for element in splitLine: "E" + str(round(newE, 5)) for an element with an
\* E in it (followed by "\n" at once in the thin_inner_core branch), the
\* element and a blank otherwise
RECURSIVE Rewritten(_, _, _)
Rewritten(line, branch, i) ==
    IF i > Len(line) THEN <<>>
    ELSE (IF ContainsE(line[i])
          THEN IF branch = "core" THEN <<"E*", "\n">> ELSE <<"E*">>
          ELSE Element(line, i) \o <<" ">>)
         \o Rewritten(line, branch, i + 1)

\* outPutLine as it is appended to lines
RewriteLine(line, branch) ==
    IF branch = "core" THEN Rewritten(line, branch, 1)
    ELSE Rewritten(line, branch, 1) \o <<"\n">>

InitRewrite ==
    /\ cfg \in GuiParams
    /\ st = Locals(cfg)
    /\ lines = <<>>
    /\ gcode = <<>>
    /\ outFile = <<"untouched">>
    /\ phase = "probe"
    /\ run = 1
    /\ probe \in RewriteInputs

\* the rewriting loop of the branch probe.branch on the line probe.line
EvaluateRewrite ==
    /\ phase = "probe"
    /\ ~probe.done
    /\ probe' = IF \E i \in 1..Len(probe.line) : ContainsE(probe.line[i]) /\ FloatRaises(probe.line[i])
                 THEN [probe EXCEPT !.err = "ValueError", !.done = TRUE]
                 ELSE [probe EXCEPT !.out = RewriteLine(probe.line, probe.branch), !.done = TRUE]
    /\ UNCHANGED <<cfg, st, lines, gcode, outFile, phase, run>>

NextRewrite == EvaluateRewrite

SpecRewrite == InitRewrite /\ [][NextRewrite]_vars

(***************************************************************************)
(* Properties                                                              *)
(***************************************************************************)
\* the input line consumed by the step, in a step of ProcessLine
StepLine == gcode'[Len(gcode')]
IsLineStep == phase = "running" /\ Len(gcode') = Len(gcode) + 1

\* the distance of the midpoint of lastPosition -> the end of l to the
\* nearest wall segment, before the step
StepDistance(l) ==
    min_distance_from_segment(Segment(st.lastPosition, getXY(l)), st.perimeterSegments)

\* the Universal guard: the move is within the critical distance of a wall
\* and collinear with it
StepGuard(l) ==
    /\ cfg.variant = "Universal"
    /\ {"infill_linewidth", "inner_wall_linewidth"} \subseteq st.bound
    /\ RLe(StepDistance(l).min_value,
           RDiv(RMul(RAdd(st.infill_linewidth, st.inner_wall_linewidth), <<7, 5>>), R(2)))
    /\ is_collinear(StepDistance(l).min_segment, st.lastPosition, getXY(l))

\* an infill extrusion move of a SMALL_SEGMENTS run is processed (and the
\* iteration ends without an exception) with walls collected
SmallMoveStep(l) ==
    /\ IsLineStep
    /\ phase' = "running"
    /\ cfg.infill_type = "SMALL_SEGMENTS"
    /\ st.currentSection = "INFILL"
    /\ cfg.variant = "Prusa" => st.layer_count > cfg.bottom_layers
    /\ prog_extrusion(l)
    /\ ~XYRaises(l)
    /\ "perimeterSegments" \in st.bound
    /\ st.perimeterSegments # <<>>

\* C1: in SMALL_SEGMENTS mode, an infill move whose distance d to the nearest
\* wall is below gradient_thickness T, and which the collinear guard does not
\* take, is emitted with its X and Y unchanged and with
\* E_out = E_in * (max_flow/100 + d * (min_flow/100 - max_flow/100) / T),
\* written with 5 decimals; it is the last line the iteration appends.
C1_GradientScaling ==
    [][ LET l == StepLine
        IN  (/\ SmallMoveStep(l)
             /\ FLt(StepDistance(l).min_value, cfg.gradient_thickness)
             /\ ~StepGuard(l))
            => LET d == StepDistance(l).min_value
                   expected == RMul(l.e, RAdd(Pct(cfg.max_flow),
                                              RDiv(RMul(d, RSub(Pct(cfg.min_flow), Pct(cfg.max_flow))),
                                                   cfg.gradient_thickness)))
                   o == lines'[Len(lines')]
               IN  /\ Len(lines') > Len(lines)
                   /\ o.role = "move"
                   /\ o.txt.s = l.s /\ o.txt.x = l.x /\ o.txt.y = l.y
                   /\ o.txt.e = Round(expected, 5)
      ]_vars

\* a gradient move was emitted at a distance strictly between 0 and T, with a
\* factor strictly between min_flow/100 and max_flow/100
C1_Witness ==
    /\ phase = "running"
    /\ cfg.infill_type = "SMALL_SEGMENTS"
    /\ \E i \in 1..Len(st.moves) :
          /\ st.moves[i].site = "gradient"
          /\ RLt(R(0), st.moves[i].d)
          /\ RLt(st.moves[i].d, cfg.gradient_thickness)
          /\ RLt(Pct(cfg.min_flow), st.moves[i].factor)
          /\ RLt(st.moves[i].factor, Pct(cfg.max_flow))
          /\ lines[st.moves[i].at].txt.e = Round(RMul(gcode[Len(gcode)].e, st.moves[i].factor), 5)

\* C2: no emitted infill move runs above hotend_max_flow.  For every infill
\* move the last iteration emitted (a SMALL_SEGMENTS move below T, one at or
\* beyond T whether scaled to min_flow or left as it is, a step of a split
\* LINEAR move, its remainder, an unsplit LINEAR move): if infill_flow times
\* the factor applied to the move exceeds hotend_max_flow, the line right
\* before the move is the feed override of control_flow.
C2_NoMoveAboveLimit ==
    \A i \in 1..Len(st.moves) :
        LET m == st.moves[i]
        IN  (/\ {"infill_flow", "hotend_max_flow"} \subseteq st.bound
             /\ IsFin(st.infill_flow)
             /\ RLt(cfg.hotend_max_flow, RMul(st.infill_flow, m.factor)))
            => (m.at > 1 /\ lines[m.at - 1].role = "override")

\* the places of the output list that hold a copy of input line i, appended
\* by the current invocation
Copies(i) == {j \in 1..Len(lines) : lines[j].run = run /\ lines[j].src = i}

\* line i is dropped on purpose: the slicer banner or first line, with
\* remove_slicer_info
OptionalDrop(i) ==
    /\ cfg.remove_slicer_info
    /\ \/ cfg.variant = "Prusa" /\ i = 1
       \/ cfg.variant = "Universal" /\ gcode[i].k = "banner"

\* a line that is neither a section or layer marker nor an X/Y extrusion move
PassThrough(i) ==
    /\ gcode[i].k \notin {"type", "layer"}
    /\ ~prog_extrusion(gcode[i])
    /\ ~OptionalDrop(i)

\* C3: lines that are neither markers nor X/Y extrusion moves (a retraction
\* "G1 E-0.8 F2100", a feed-only line, a travel, a comment) are in the output
\* of a completed pass exactly once, byte for byte, and in the input's order.
C3_PassThroughVerbatim ==
    phase = "done" =>
        /\ \A i \in 1..Len(gcode) :
              PassThrough(i) =>
                  /\ Cardinality(Copies(i)) = 1
                  /\ \A j \in Copies(i) : outFile[j] = gcode[i]
        /\ \A i1, i2 \in 1..Len(gcode) :
              (i1 < i2 /\ PassThrough(i1) /\ PassThrough(i2)) =>
                  \A j1 \in Copies(i1), j2 \in Copies(i2) : j1 < j2

\* line i follows an inner wall marker, with no other marker in between
InnerWallLine(i) ==
    \E j \in 1..(i - 1) :
        /\ gcode[j].k = "type"
        /\ gcode[j].s \in {"Inner wall", "Perimeter"}
        /\ \A k \in (j + 1)..i : gcode[k].k # "type"

\* C4: the output of a completed pass has at least as many lines as the
\* input, less the optional first line, and every marker line and every line
\* of an inner wall section is in it.
C4_NoLineLost ==
    phase = "done" =>
        /\ Len(outFile) >= Len(gcode) - (IF cfg.remove_slicer_info THEN 1 ELSE 0)
        /\ \A i \in 1..Len(gcode) :
              (gcode[i].k \in {"type", "layer"} \/ InnerWallLine(i)) => Copies(i) # {}

\* C5: once a line that starts with "G2 " or "G3 " has been read, the run is
\* aborted and the output file is not written.
C5_ArcAborts ==
    (phase # "probe" /\ \E i \in 1..Len(gcode) : IsArc(gcode[i]))
        => (phase = "aborted" /\ outFile = <<"untouched">>)

\* C6: the output file is written only by a pass that went through every line
\* without an exception: while lines are processed and after an exception the
\* file is untouched, and a written file holds the whole list.
C6_NoPartialCommit ==
    /\ phase \in {"running", "aborted"} => outFile = <<"untouched">>
    /\ st.err # "none" => outFile = <<"untouched">>
    /\ phase = "done" => outFile = WriteLines(lines)

\* an exception was raised after lines had been appended to the list
C6_Witness ==
    /\ phase = "aborted"
    /\ st.err # "none"
    /\ Len(lines) > 0
    /\ outFile = <<"untouched">>

\* C7: in the Universal script, while Slicer_Type is SEARCH, reading a
\* section marker of either vocabulary aborts the run.
C7_SearchAborts ==
    (/\ cfg.variant = "Universal"
     /\ phase # "probe"
     /\ st.Slicer_Type = "SEARCH"
     /\ \E i \in 1..Len(gcode) : gcode[i].k = "type")
        => phase = "aborted"

\* C8: at the end of a completed pass edit is 0 exactly if every input line
\* is in the output once and unchanged, the "No changes" message is shown
\* exactly if edit is 0, and the output is written either way.
C8_EditCounter ==
    phase = "done" =>
        /\ (st.edit = 0) <=> (\A i \in 1..Len(gcode) : Cardinality(Copies(i)) = 1
                                                      /\ Len(lines) = Len(gcode))
        /\ ("NoChanges" \in st.diag) <=> (st.edit = 0)
        /\ outFile = WriteLines(lines)

\* C9: the output of a completed pass holds only lines appended by that
\* invocation, also when an earlier invocation in the same process failed.
C9_NoStateAcrossRuns ==
    phase = "done" =>
        /\ \A j \in 1..Len(lines) : lines[j].run = run
        /\ Len(outFile) = Cardinality({j \in 1..Len(lines) : lines[j].run = run})

C16_DistTotal ==
    (phase = "probe" /\ probe.done) =>
        /\ probe.err = "none"
        /\ RLe(R(0), probe.out)
        /\ probe.segment.point1 = probe.segment.point2 => probe.out = R(0)

\* the distance is a number at or beyond gradient_thickness
FarField(d) == IsFin(d) /\ RLe(cfg.gradient_thickness, d)

\* C11: an infill move, or a step of a split LINEAR move, whose distance to
\* the nearest wall is at or beyond gradient_thickness is emitted with
\* E = E_in * min_flow/100 when thin_inner_core is on and unscaled (for a
\* SMALL_SEGMENTS move: the input line as it is) when thin_inner_core is off.
C11_FarFieldFlow ==
    [][ (IsLineStep /\ phase' = "running") =>
        LET l == StepLine
        IN  /\ (SmallMoveStep(l) /\ FarField(StepDistance(l).min_value)) =>
                   /\ Len(lines') > Len(lines)
                   /\ lines'[Len(lines')].txt =
                          IF cfg.thin_inner_core
                          THEN [l EXCEPT !.e = Round(RMul(l.e, Pct(cfg.min_flow)), 5)]
                          ELSE l
            /\ \A i \in 1..Len(st'.moves) :
                   LET m == st'.moves[i]
                       perStep == LinearCtx(st, l, cfg).extrusionLengthPerSegment
                   IN  (m.site = "step" /\ FarField(m.d)) =>
                           IF cfg.thin_inner_core
                           THEN /\ m.factor = Pct(cfg.min_flow)
                                /\ lines'[m.at].txt.e = Round(RMul(perStep, Pct(cfg.min_flow)), 5)
                           ELSE /\ m.factor = R(1)
                                /\ lines'[m.at].txt.e = Round(perStep, 5)
      ]_vars

\* C12: every factor an emitted infill move was scaled with (the E written
\* is the rounded product of the factor and the E of the move, or of the
\* step of a split move) is in [min_flow/100, max_flow/100], or it is 1 and
\* the collinearity guard of the Universal script took the move.  A move
\* that is passed through as it is has no factor.
C12_FactorRange ==
    [][ IsLineStep =>
        \A i \in 1..Len(st'.moves) :
            LET m == st'.moves[i]
                l == StepLine
            IN  m.site # "unscaled" =>
                    /\ \/ RLe(Pct(cfg.min_flow), m.factor) /\ RLe(m.factor, Pct(cfg.max_flow))
                       \/ m.factor = R(1) /\ m.site = "gradient" /\ StepGuard(l)
                    /\ m.site \in {"gradient", "core", "unsplit"} =>
                           lines'[m.at].txt.e = Round(RMul(l.e, m.factor), 5)
                    /\ m.site = "step" =>
                           lines'[m.at].txt.e =
                               Round(RMul(LinearCtx(st, l, cfg).extrusionLengthPerSegment, m.factor), 5)
      ]_vars

\* the guard gave a move the factor 1 while max_flow is below 100
C12_Witness ==
    /\ phase = "running"
    /\ RLt(Pct(cfg.max_flow), R(1))
    /\ \E i \in 1..Len(st.moves) :
          /\ st.moves[i].site = "gradient"
          /\ st.moves[i].factor = R(1)
          /\ lines[st.moves[i].at].txt.e = gcode[Len(gcode)].e

\* the last section marker read (0 if none)
LastMarker ==
    CHOOSE k \in 0..Len(gcode) :
        /\ k = 0 \/ gcode[k].k = "type"
        /\ \A j \in (k + 1)..Len(gcode) : gcode[j].k # "type"

\* a line "G1 F..." with nothing else on it
IsFeedText(t) ==
    t.k = "g" /\ t.s = "G1" /\ t.f # Absent /\ t.x = Absent /\ t.y = Absent /\ t.e = Absent

\* an element of the output that is an extrusion move
IsMoveOut(o) == o.role = "move" \/ (o.role = "copy" /\ prog_extrusion(o.txt))

\* the lines after marker k are an infill run of n >= 2 extrusion moves at
\* one feed, set on a feed-only line before the first move or on the first
\* move itself, and the run stayed within the flow limit
FeedRun(k) ==
    /\ phase = "running" /\ st.err = "none"
    /\ k > 0 /\ st.currentSection = "INFILL"
    /\ Copies(k) # {}
    /\ Len(gcode) > k
    /\ LET first == gcode[k + 1]
           from  == IF prog_extrusion(first) THEN k + 1 ELSE k + 2
       IN  /\ \/ prog_extrusion(first) /\ first.f # Absent
              \/ IsFeedText(first)
           /\ Len(gcode) >= from + 1
           /\ \A j \in from..Len(gcode) : prog_extrusion(gcode[j]) /\ ~XYRaises(gcode[j])
           /\ \A j \in (k + 2)..Len(gcode) : gcode[j].f = Absent
    /\ "infill_flow" \in st.bound /\ IsFin(st.infill_flow)
    /\ RLe(st.infill_flow, cfg.hotend_max_flow)
    /\ \A j \in 1..Len(lines) : lines[j].role # "override"

\* C13: for an infill run of n >= 2 extrusion moves at one feed, all within
\* the flow limit, the output after the infill marker has exactly one feed
\* line, and it stands before the first move.
C13_OneFeedLine ==
    LET k == LastMarker
    IN  FeedRun(k) =>
            LET jm    == CHOOSE j \in Copies(k) : TRUE
                feeds == {j \in (jm + 1)..Len(lines) : IsFeedText(lines[j].txt)}
                mvs   == {j \in (jm + 1)..Len(lines) : IsMoveOut(lines[j])}
            IN  /\ Cardinality(feeds) = 1
                /\ \A f \in feeds, m \in mvs : f < m

\* the feed of control_flow for a move of length len that extrudes es (es
\* as computed, before it is written with 5 decimals)
OverrideFeed(len, es) == control_flow(cfg.hotend_max_flow, es, len, cfg.d_f)

\* C14: in the Orca and Universal scripts every feed override line carries
\* F = round(hotend_max_flow * L * 60 * 4 / (Es * d_f^2 * pi), 3), L the
\* length of the move that follows it and Es the scaled extrusion of that
\* move: the whole move for a SMALL_SEGMENTS or unsplit LINEAR move, one
\* step of gradientDiscretizationLength for a step, the rest of the move
\* (when it has a length) for the remainder.
C14_OverrideFeed ==
    [][ (IsLineStep /\ phase' = "running" /\ cfg.variant \in {"Orca", "Universal"}) =>
        \A i \in 1..Len(st'.moves) :
            LET m == st'.moves[i]
                l == StepLine
                x == LinearCtx(st, l, cfg)
                f == lines'[m.at - 1].txt.f
                rest == RSub(x.segmentLength, RMul(R(RFloor(x.segmentSteps)), x.unit))
            IN  (m.at > 1 /\ lines'[m.at - 1].role = "override") =>
                    /\ m.site \in {"gradient", "unsplit"} =>
                           f = OverrideFeed(x.segmentLength, RMul(l.e, m.factor))
                    /\ m.site = "step" =>
                           f = OverrideFeed(x.unit, RMul(x.extrusionLengthPerSegment, m.factor))
                    /\ (m.site = "remainder" /\ rest # R(0)) =>
                           f = OverrideFeed(rest, RMul(RMul(RDiv(rest, x.segmentLength), l.e), m.factor))
      ]_vars

(***************************************************************************)
(* Subdivision of a LINEAR move: lengths and extrusions of the sub-moves.  *)
(***************************************************************************)
\* the step split a LINEAR move into sub-moves (steps and the remainder)
IsSplitStep ==
    /\ IsLineStep
    /\ phase' = "running"
    /\ Len(st'.moves) >= 1
    /\ \A i \in 1..Len(st'.moves) : st'.moves[i].site \in {"step", "remainder"}

\* the end point written on the i-th sub-move, and the point it starts from
SubEnd(i) == Point2D(lines'[st'.moves[i].at].txt.x, lines'[st'.moves[i].at].txt.y)

SubStart(i) == IF i = 1 THEN st.lastPosition ELSE SubEnd(i - 1)

SubLength(i) == get_points_distance(SubStart(i), SubEnd(i))

\* (sub-move length / move length) * original E * the sub-move's factor,
\* with the 5 decimals it is written with
SubShare(i, len, e) == Round(RMul(RMul(RDiv(SubLength(i), len), e), st'.moves[i].factor), 5)

RECURSIVE SumLengths(_)
SumLengths(n) == IF n = 0 THEN R(0) ELSE RAdd(SumLengths(n - 1), SubLength(n))

\* a number written with 5 decimals, in units of 0.00001
Units(a) == a[1] * (100000 \div a[2])

RECURSIVE SumEmitted(_)
SumEmitted(n) ==
    IF n = 0 THEN 0 ELSE SumEmitted(n - 1) + Units(lines'[st'.moves[n].at].txt.e)

RECURSIVE SumShares(_, _, _)
SumShares(n, len, e) ==
    IF n = 0 THEN 0 ELSE SumShares(n - 1, len, e) + Units(SubShare(n, len, e))

SharedFactor == \A i \in 1..Len(st'.moves) : st'.moves[i].factor = st'.moves[1].factor

\* C15 as stated: the sub-move lengths sum to the move length, and the
\* emitted extrusions sum to the original E (within the 5 written decimals
\* of each sub-move) when all sub-moves share one flow factor, and to the
\* weighted sum otherwise
C15_SumIsOriginal ==
    [][ IsSplitStep =>
            /\ SumLengths(Len(st'.moves)) = get_points_distance(st.lastPosition, getXY(StepLine))
            /\ IF SharedFactor
               THEN Abs(SumEmitted(Len(st'.moves)) - Units(Round(StepLine.e, 5))) <= Len(st'.moves)
               ELSE SumEmitted(Len(st'.moves)) =
                        SumShares(Len(st'.moves), get_points_distance(st.lastPosition, getXY(StepLine)),
                                  StepLine.e)
      ]_vars

\* C15 amended: the sub-move lengths sum to the move length, and the
\* emitted extrusions sum to the weighted sum over the sub-moves of
\* (length / move length) * E * factor, each term with 5 decimals; with one
\* shared factor f that is f * E
C15_SumIsWeighted ==
    [][ IsSplitStep =>
            /\ SumLengths(Len(st'.moves)) = get_points_distance(st.lastPosition, getXY(StepLine))
            /\ SumEmitted(Len(st'.moves)) =
                   SumShares(Len(st'.moves), get_points_distance(st.lastPosition, getXY(StepLine)),
                             StepLine.e)
            /\ \A i \in 1..Len(st'.moves) :
                   lines'[st'.moves[i].at].txt.e =
                       SubShare(i, get_points_distance(st.lastPosition, getXY(StepLine)), StepLine.e)
      ]_vars

\* a move of 5 mm was split into two steps of 2 mm with different factors
\* and a remainder of 1 mm
C15_Witness ==
    /\ phase = "running"
    /\ Len(st.moves) = 3
    /\ st.moves[1].site = "step" /\ st.moves[2].site = "step" /\ st.moves[3].site = "remainder"
    /\ st.moves[1].factor # st.moves[2].factor
    /\ lines[st.moves[3].at].txt.e # R(0)

(***************************************************************************)
(* Type-marker lines and the section state machine.                        *)
(***************************************************************************)
\* the line read by this step matches the type-marker pattern of the active
\* profile (the Universal script has no profile while it still searches)
IsMarkerStep ==
    /\ IsLineStep
    /\ StepLine.k = "type"
    /\ IF cfg.variant = "Universal"
       THEN st.Slicer_Type # "SEARCH" /\ StepLine.voc = st.prog_type
       ELSE StepLine.voc = ";TYPE:"

\* C17: a type-marker line is appended once, unmodified, and neither the
\* wall collector nor the infill pipeline nor the position tracker acts on it
C17_MarkerPassThrough ==
    [][ IsMarkerStep =>
            /\ phase' = "running"
            /\ Len(lines') = Len(lines) + 1
            /\ lines'[Len(lines')].txt = StepLine
            /\ lines'[Len(lines')].role = "copy"
            /\ st'.perimeterSegments = st.perimeterSegments
            /\ st'.lastPosition = st.lastPosition
            /\ st'.moves = <<>>
            /\ st'.infill_speed = st.infill_speed
            /\ st'.infill_flow = st.infill_flow
            /\ st'.infill_begin = st.infill_begin
            /\ st'.is_old_speed = st.is_old_speed
      ]_vars

\* C18: currentSection starts as NOTHING, and a step that changes it is the
\* processing of a line that matches the type-marker pattern
C18_SectionChangesOnMarker ==
    /\ st.currentSection = "NOTHING"
    /\ [][ st'.currentSection # st.currentSection => IsMarkerStep ]_vars

\* a layer-change marker, and a split infill move, were processed inside a
\* section and the section is still the same
C18_Witness ==
    /\ phase = "running"
    /\ st.currentSection = "INFILL"
    /\ \/ gcode[Len(gcode)].k = "layer"
       \/ Len(st.moves) >= 2

\* the slicer whose profile is active
ActiveSlicer ==
    IF cfg.variant = "Orca" THEN "ORCA"
    ELSE IF cfg.variant = "Prusa" THEN "PRUSA"
    ELSE st.Slicer_Type

\* the transition table of the section state machine
TableSection(slicer, l) ==
    IF is_begin_inner_wall_line(slicer, l) THEN "INNER_WALL"
    ELSE IF is_begin_infill_segment_line(slicer, l) THEN "INFILL"
    ELSE "NOTHING"

\* C19: after a type-marker line the section is the one the table gives for
\* that line, whatever the section was before (in the Prusa script, on the
\* layers above bottom_layers, which are the ones it processes)
C19_TransitionTable ==
    [][ (IsMarkerStep /\ phase' = "running"
            /\ (cfg.variant = "Prusa" => st.layer_count > cfg.bottom_layers)) =>
            st'.currentSection = TableSection(ActiveSlicer, StepLine)
      ]_vars

(***************************************************************************)
(* The walls of the layer.                                                 *)
(***************************************************************************)
\* the wall collector sees the line: the section is INNER_WALL (and, in the
\* Prusa script, the layer is above bottom_layers)
Collecting ==
    /\ st.currentSection = "INNER_WALL"
    /\ cfg.variant = "Prusa" => st'.layer_count > cfg.bottom_layers

\* C20: a layer-change marker replaces the walls by the empty list, an
\* extrusion move read in section INNER_WALL appends the one segment
\* Segment(its XY, lastPosition), and every other line leaves the walls as
\* they are
C20_WallSet ==
    [][ (IsLineStep /\ phase' = "running") =>
            st'.perimeterSegments =
                IF is_begin_layer_line(ActiveSlicer, StepLine) THEN <<>>
                ELSE IF Collecting /\ is_extrusion_line(StepLine)
                THEN Append(st.perimeterSegments, Segment(getXY(StepLine), st.lastPosition))
                ELSE st.perimeterSegments
      ]_vars

\* a layer-change marker was read after walls had been collected, and an
\* infill section begun after it finds no wall
C20_Witness ==
    /\ phase = "running"
    /\ Len(gcode) = Len(cfg.prologue) + 2
    /\ \E i \in 1..Len(cfg.prologue) : is_extrusion_line(gcode[i])
    /\ gcode[Len(gcode) - 1].k = "layer"
    /\ st.currentSection = "INFILL"
    /\ st.perimeterSegments = <<>>

(***************************************************************************)
(* Position tracking (the Orca and Universal scripts have ignore_pos).     *)
(***************************************************************************)
\* C21: ignore_pos is set at the start, a type marker sets it exactly when
\* it is the start-gcode marker and no other line changes it; a move line
\* (G0/G1 with X and Y) read while ignore_pos is not set leaves lastPosition
\* at its X/Y, in any section, also when the move was split into steps
C21_PositionTracked ==
    /\ cfg.variant # "Prusa" => st.ignore_pos
    /\ [][ (IsLineStep /\ phase' = "running" /\ cfg.variant # "Prusa") =>
              /\ st'.ignore_pos = IF IsMarkerStep THEN is_start_gcode(ActiveSlicer, StepLine)
                                  ELSE st.ignore_pos
              /\ (prog_move(StepLine) /\ ~st.ignore_pos) => st'.lastPosition = getXY(StepLine)
         ]_vars

\* a move was read in section NOTHING after the outer-wall marker had
\* cleared ignore_pos, and lastPosition is its target
C21_Witness ==
    /\ phase = "running"
    /\ cfg.variant # "Prusa"
    /\ ~st.ignore_pos
    /\ st.currentSection = "NOTHING"
    /\ prog_move(gcode[Len(gcode)])
    /\ st.lastPosition = getXY(gcode[Len(gcode)])
    /\ st.lastPosition # PB

(***************************************************************************)
(* The feed of the infill moves.                                           *)
(***************************************************************************)
\* the places in lines' of the lines this step appended
Fresh == (Len(lines) + 1)..Len(lines')

\* the last feed this step wrote is an override: a feed-override line was
\* appended and no line restoring the slicer's feed came after it
EndsOverridden ==
    \E i \in Fresh :
        /\ lines'[i].role = "override"
        /\ \A j \in Fresh : j > i => lines'[j].role # "feed"

\* C22: after a step whose last feed is a feed override, the 'feed
\* unchanged' flag is_old_speed is cleared
C22_OverrideClearsFlag ==
    [][ (IsLineStep /\ phase' = "running" /\ cfg.variant \in {"Orca", "Universal"} /\ EndsOverridden) =>
            ~st'.is_old_speed
      ]_vars

\* C23: when an infill-begin marker opens an infill run, also a later one
\* of the file, the 'feed unchanged' flag is false, so that the first move
\* of the run within the flow limit gets its feed line
C23_RunStartsWithFeed ==
    [][ (IsMarkerStep /\ phase' = "running" /\ cfg.variant \in {"Orca", "Universal"}
            /\ st'.currentSection = "INFILL") =>
            ~st'.is_old_speed
      ]_vars

(***************************************************************************)
(* The nominal infill flow.                                                *)
(***************************************************************************)
\* the step processes an infill extrusion move
IsInfillMoveStep ==
    /\ IsLineStep /\ phase' = "running"
    /\ st.currentSection = "INFILL"
    /\ prog_extrusion(StepLine)

\* the line read before this one, in the same section
PrevLine == gcode[Len(gcode)]

\* the move is the first one after a feed-setting line: the feed is on the
\* move itself or on the line before it
FirstAfterFeed ==
    \/ HasFeed(StepLine)
    \/ Len(gcode) >= 1 /\ HasFeed(PrevLine) /\ ~prog_extrusion(PrevLine)

\* the move follows another infill move of the same feed
LaterAfterFeed ==
    /\ ~HasFeed(StepLine)
    /\ Len(gcode) >= 1 /\ prog_extrusion(PrevLine)

\* C24: infill_flow is assigned at the first infill move after a
\* feed-setting line, as feed * d_f^2 * pi * E / (4 * length * 60), and a
\* later move of the same feed, or a line that is no infill move, keeps it
C24_FlowOncePerFeed ==
    [][ (IsLineStep /\ phase' = "running" /\ cfg.variant \in {"Orca", "Universal"}) =>
            /\ (IsInfillMoveStep /\ FirstAfterFeed) =>
                   st'.infill_flow =
                       InfillFlow(st'.infill_speed, cfg.d_f, StepLine.e,
                                  get_points_distance(st.lastPosition, getXY(StepLine)))
            /\ (IsInfillMoveStep /\ LaterAfterFeed) => st'.infill_flow = st.infill_flow
            /\ ~IsInfillMoveStep => st'.infill_flow = st.infill_flow
      ]_vars

(***************************************************************************)
(* The sub-moves of a split LINEAR move.                                   *)
(***************************************************************************)
\* the point i steps of length unit from last towards cur
StepPoint(last, cur, len, unit, i) ==
    Point2D(RAdd(last[1], RDiv(RMul(RMul(R(i), unit), RSub(cur[1], last[1])), len)),
            RAdd(last[2], RDiv(RMul(RMul(R(i), unit), RSub(cur[2], last[2])), len)))

\* the flow factor of the i-th step, from the distance of its midpoint to
\* the nearest wall
StepFactor(last, cur, len, unit, i, walls, c) ==
    StepFlowFactor(min_distance_from_segment(Segment(StepPoint(last, cur, len, unit, i - 1),
                                                     StepPoint(last, cur, len, unit, i)),
                                             walls).min_value, c)

\* the i-th sub-move as it is written
ExpectedStep(last, cur, len, unit, i, e, walls, c) ==
    get_extrusion_command(StepPoint(last, cur, len, unit, i)[1], StepPoint(last, cur, len, unit, i)[2],
                          RMul(RDiv(e, RDiv(len, unit)), StepFactor(last, cur, len, unit, i, walls, c)))

\* the remainder after n steps as it is written
ExpectedRemainder(cur, len, unit, n, e, c) ==
    get_extrusion_command(cur[1], cur[2],
                          RMul(RMul(RDiv(RSub(len, RMul(R(n), unit)), len), e), Pct(c.max_flow)))

\* the sub-moves written for a move from last to the target of line l
SplitAsExpected(last, l, len, unit, n, walls, c) ==
    /\ Len(st'.moves) = n + 1
    /\ Cardinality({j \in Fresh : lines'[j].role = "move"}) = n + 1
    /\ \A j \in Fresh : lines'[j].role # "copy"
    /\ \A i \in 1..n :
          lines'[st'.moves[i].at].txt = ExpectedStep(last, getXY(l), len, unit, i, l.e, walls, c)
    /\ lines'[st'.moves[n + 1].at].txt = ExpectedRemainder(getXY(l), len, unit, n, l.e, c)
    /\ st'.moves[n + 1].at = Len(lines')

\* the step reads a LINEAR infill move of at least two steps
IsLinearSplitStep ==
    /\ IsInfillMoveStep
    /\ cfg.infill_type = "LINEAR"
    /\ cfg.variant = "Prusa" => st.layer_count > cfg.bottom_layers
    /\ RLe(RMul(R(2), UnitLength(cfg)), get_points_distance(st.lastPosition, getXY(StepLine)))

\* C25: a LINEAR move of steps = L / unit >= 2 is written as floor(steps)
\* sub-moves, the i-th ending i units along the move and carrying E / steps
\* times the factor of its own midpoint, then one remainder to the endpoint
\* carrying (remaining length / L) * E * max_flow / 100, and the line itself
\* is not written
C25_SplitShape ==
    [][ IsLinearSplitStep =>
            SplitAsExpected(st.lastPosition, StepLine,
                            get_points_distance(st.lastPosition, getXY(StepLine)), UnitLength(cfg),
                            RFloor(RDiv(get_points_distance(st.lastPosition, getXY(StepLine)),
                                        UnitLength(cfg))),
                            st.perimeterSegments, cfg)
      ]_vars

\* a move of 5 mm was written as two steps of 2 mm and a remainder of 1 mm
C25_Witness ==
    /\ phase = "running"
    /\ cfg.infill_type = "LINEAR"
    /\ UnitLength(cfg) = R(2)
    /\ Len(st.moves) = 3
    /\ st.moves[3].site = "remainder"
    /\ st.lastPosition = PC
    /\ lines[st.moves[2].at].txt.x = <<16, 5>>
    /\ lines[st.moves[3].at].txt.e = <<2, 5>>

\* the step reads a LINEAR infill move shorter than two steps, after a feed
\* was set for the infill
IsLinearShortStep ==
    /\ IsLineStep
    /\ st.currentSection = "INFILL"
    /\ cfg.infill_type = "LINEAR"
    /\ cfg.variant = "Prusa" => st.layer_count > cfg.bottom_layers
    /\ prog_extrusion(StepLine) /\ ~XYRaises(StepLine)
    /\ HasFeed(StepLine) \/ "infill_speed" \in st.bound
    /\ RLt(get_points_distance(st.lastPosition, getXY(StepLine)), RMul(R(2), UnitLength(cfg)))

\* C26: a LINEAR move of fewer than two steps, a move of length 0 among
\* them, is written as one move line, the line itself with E replaced by
\* E * max_flow / 100, and the run goes on
C26_ShortMoveUnsplit ==
    [][ IsLinearShortStep =>
            /\ phase' = "running"
            /\ Cardinality({j \in Fresh : lines'[j].role \in {"move", "copy"}}) = 1
            /\ lines'[Len(lines')].role = "move"
            /\ lines'[Len(lines')].txt = ReplaceE(StepLine, RMul(StepLine.e, Pct(cfg.max_flow)))
      ]_vars

(***************************************************************************)
(* The profile and the detected values of the Universal script.            *)
(***************************************************************************)
\* a type-marker line is among the first n lines read
MarkerAmong(n) == \E i \in 1..n : gcode'[i].k = "type"

\* the values the forward pass works with
Detected(s) ==
    <<s.Slicer_Type, s.prog_type, s.infill_linewidth, s.inner_wall_linewidth,
      s.bound \cap {"hotend_max_flow", "infill_type", "infill_linewidth", "inner_wall_linewidth"}>>

\* C27: once the first type-marker line has been classified the slicer
\* profile is known and the flow limit, the infill pattern and the two line
\* widths have their values, and no later line changes any of them
C27_ResolvedBeforeMarkers ==
    [][ (IsLineStep /\ phase' = "running" /\ cfg.variant = "Universal" /\ MarkerAmong(Len(gcode'))) =>
            /\ st'.Slicer_Type # "SEARCH"
            /\ {"hotend_max_flow", "infill_type", "infill_linewidth", "inner_wall_linewidth"}
                   \subseteq st'.bound
            /\ MarkerAmong(Len(gcode)) => Detected(st') = Detected(st)
      ]_vars

(***************************************************************************)
(* Moves along a wall (Universal script, SMALL_SEGMENTS).                  *)
(***************************************************************************)
\* (infill_linewidth + inner_wall_linewidth) * 1.4 / 2
CriticalDistance(s) == RDiv(RMul(RAdd(s.infill_linewidth, s.inner_wall_linewidth), <<7, 5>>), R(2))

\* the move from last to cur is within the critical distance of its
\* nearest wall and within 15 degrees of its direction
AlongWall(seg_info, last, cur, critical_distance) ==
    /\ last # cur
    /\ IsFin(seg_info.min_value)
    /\ RLe(seg_info.min_value, critical_distance)
    /\ is_collinear(seg_info.min_segment, last, cur)

\* C28: an infill move within the critical distance of its nearest wall and
\* within 15 degrees of it is written with its original E, also when the
\* critical distance is not below gradient_thickness
C28_AlongWallUnscaled ==
    [][ (IsInfillMoveStep /\ cfg.variant = "Universal" /\ cfg.infill_type = "SMALL_SEGMENTS"
            /\ {"infill_linewidth", "inner_wall_linewidth"} \subseteq st.bound
            /\ st.perimeterSegments # <<>>
            /\ AlongWall(min_distance_from_segment(Segment(st.lastPosition, getXY(StepLine)),
                                                   st.perimeterSegments),
                         st.lastPosition, getXY(StepLine), CriticalDistance(st))) =>
            /\ lines'[Len(lines')].role \in {"move", "copy"}
            /\ lines'[Len(lines')].txt.e = Round(StepLine.e, 5)
      ]_vars

(***************************************************************************)
(* The tokens of a rewritten line.                                         *)
(***************************************************************************)
\* the whitespace-delimited tokens of a text given by its pieces: each token
\* is the sequence of the pieces that stand together
RECURSIVE Words(_, _, _, _)
Words(pieces, i, cur, acc) ==
    IF i > Len(pieces) THEN (IF cur = <<>> THEN acc ELSE Append(acc, cur))
    ELSE IF pieces[i] \in Blank
    THEN Words(pieces, i + 1, <<>>, IF cur = <<>> THEN acc ELSE Append(acc, cur))
    ELSE Words(pieces, i + 1, Append(cur, pieces[i]), acc)

\* the tokens of the line with the token beginning with E replaced
ExpectedWords(line) == [i \in 1..Len(line) |-> IF line[i] = "E1" THEN <<"E*">> ELSE <<line[i]>>]

\* C29: the rewritten line has the tokens of the line, in their order, with
\* the one token beginning with E replaced by the scaled extrusion, and ends
\* with its only line terminator
C29_TokenFrame ==
    (phase = "probe" /\ probe.done) =>
        /\ probe.err = "none"
        /\ Words(probe.out, 1, <<>>, <<>>) = ExpectedWords(probe.line)
        /\ probe.out[Len(probe.out)] = "\n"
        /\ Cardinality({i \in 1..Len(probe.out) : probe.out[i] = "\n"}) = 1

\* the step reads an input line and appends nothing for it to the output
DroppedStep == IsLineStep /\ phase' = "running" /\ Fresh = {}

\* C30: in the Prusa and Universal variants an input line is dropped from the
\* output only with remove_slicer_info, and then only the first line of the
\* file, which is a slicer banner (so at most one line is dropped); without
\* remove_slicer_info no line is dropped.
C30_OnlyBannerDropped ==
    [][ (DroppedStep /\ cfg.variant \in {"Prusa", "Universal"}) =>
            /\ cfg.remove_slicer_info
            /\ Len(gcode') = 1
            /\ StepLine.k = "banner"
      ]_vars

\* the nominal infill flow of the current infill run is above the hotend limit
NominalFlowAbove ==
    /\ phase \in {"running", "done"}
    /\ {"infill_flow", "hotend_max_flow"} \subseteq st.bound
    /\ IsFin(st.infill_flow)
    /\ RLt(cfg.hotend_max_flow, st.infill_flow)

\* C31: once the nominal infill flow computed at the start of an infill run
\* is above the hotend limit, in either infill pattern, the warning has been
\* issued and the pass has not stopped to read from the operator.
C31_WarnsWithoutWaiting ==
    NominalFlowAbove => ("FlowWarning" \in st.diag /\ "input" \notin st.diag)

\* the step reads an infill move for which min_distance_from_segment is
\* called: every SMALL_SEGMENTS move, and a LINEAR move of two steps or more
EvaluatorStep ==
    /\ IsLineStep
    /\ st.currentSection = "INFILL"
    /\ prog_extrusion(StepLine) /\ ~XYRaises(StepLine)
    /\ cfg.variant = "Prusa" => st.layer_count > cfg.bottom_layers
    /\ \/ cfg.infill_type = "SMALL_SEGMENTS"
       \/ RLe(RMul(R(2), UnitLength(cfg)), get_points_distance(st.lastPosition, getXY(StepLine)))

\* the step reads an extrusion move of an inner wall section
CollectorStep ==
    /\ IsLineStep
    /\ st.currentSection = "INNER_WALL"
    /\ is_extrusion_line(StepLine)
    /\ cfg.variant = "Prusa" => st.layer_count > cfg.bottom_layers

\* C32: when the nearest-wall evaluator is called the wall set of the layer
\* exists and holds a segment, when the collector is called the wall set
\* exists, and neither aborts the run.
C32_WallSetReady ==
    [][ /\ EvaluatorStep =>
              /\ "perimeterSegments" \in st.bound
              /\ st.perimeterSegments # <<>>
              /\ st'.err # "ValueError"
        /\ CollectorStep => "perimeterSegments" \in st.bound
      ]_vars

\* the step reads an infill move in the Orca or Universal script, with
\* everything the move needs besides the feed variables in place: the
\* parameters found in the file, the line widths, a wall set with a segment
FeedVariablesStep ==
    /\ IsLineStep
    /\ cfg.variant \in {"Orca", "Universal"}
    /\ st.currentSection = "INFILL"
    /\ prog_extrusion(StepLine) /\ ~XYRaises(StepLine)
    /\ "perimeterSegments" \in st.bound /\ st.perimeterSegments # <<>>
    /\ cfg.variant = "Universal" =>
           {"infill_type", "hotend_max_flow", "infill_linewidth", "inner_wall_linewidth"} \subseteq st.bound

\* C33: an infill move of the Orca or Universal script never reads
\* infill_speed, infill_begin or infill_flow before they are assigned, also
\* when no "G1 ... F" line came before the first move of the section, and
\* a SMALL_SEGMENTS move of length 0 does not stop the computation of
\* infill_flow.
C33_FeedVariablesDefined ==
    [][ FeedVariablesStep =>
            /\ st'.err # "UnboundLocalError"
            /\ (/\ cfg.infill_type = "SMALL_SEGMENTS"
                /\ getXY(StepLine) = st.lastPosition
                /\ StepLine.e # R(0)) => st'.err # "ZeroDivisionError"
      ]_vars

\* the X/Y targets of the move lines read so far
MoveTargets == {getXY(gcode[i]) : i \in {j \in 1..Len(gcode) : prog_move(gcode[j]) /\ ~XYRaises(gcode[j])}}

\* C34: both end points of every segment of the wall set are X/Y targets of
\* move lines of the input, and none is the initial value of lastPosition.
C34_WallEndpointsFromInput ==
    ("perimeterSegments" \in st.bound /\ st.err = "none") =>
        \A i \in 1..Len(st.perimeterSegments) :
            /\ st.perimeterSegments[i].point1 \in MoveTargets
            /\ st.perimeterSegments[i].point2 \in MoveTargets
            /\ st.perimeterSegments[i].point1 # StartPosition(cfg.variant)
            /\ st.perimeterSegments[i].point2 # StartPosition(cfg.variant)

\* the number of layer-change markers the Prusa loop has met once the step's
\* line is read (the line dropped by remove_slicer_info is not looked at)
LayersBegun ==
    Cardinality({i \in (IF cfg.remove_slicer_info THEN 2 ELSE 1)..Len(gcode') :
                    gcode'[i].k = "layer" /\ gcode'[i].s = ";LAYER_CHANGE"})

\* the step reads a line of one of the first bottom_layers layers
BottomLayerStep ==
    /\ IsLineStep /\ phase' = "running"
    /\ cfg.variant = "Prusa"
    /\ ~st.first_line
    /\ LayersBegun >= 1
    /\ LayersBegun <= cfg.bottom_layers

MAX_FLOW == R(220)
MIN_FLOW == R(60)

MaxZLines == 5

\* the constants of the script as they are in the repository, and those of
\* a print of three layers without bottom layers
ZConstants ==
    {[NUMBER_OF_LAYERS |-> n[1], BOTTTOM_LAYERS |-> n[2], TOP_LAYERS |-> n[3],
      EQUALIZE_FLOW |-> eq, DENSE_TO_LIGHT |-> d] :
        n \in {<<185, 4, 4>>, <<3, 0, 1>>}, eq \in BOOLEAN, d \in BOOLEAN}

ZAlphabet ==
    {LayerLine(";LAYER_CHANGE"), TypeLine(";TYPE:", "Internal infill"), TypeLine(";TYPE:", "Perimeter"),
     Extrude(PB)}

\* "M221 S{}\n".format(value), "M220 S{}\n".format(value): the number is in
\* the field e
MLine(cmd, value) == Line("m", "", cmd, Absent, Absent, value, Absent)

\* NUMBER_OF_LAYERS -= (TOP_LAYERS + BOTTTOM_LAYERS)
GradientLayers(k) == k.NUMBER_OF_LAYERS - (k.TOP_LAYERS + k.BOTTTOM_LAYERS)

\* round((1 - layer_count/N) * MAX_FLOW + layer_count/N * MIN_FLOW, 2), and
\* the same with the two flows exchanged
E_factor(k, layer_count) ==
    IF k.DENSE_TO_LIGHT
    THEN Round(RAdd(RMul(RSub(R(1), RDiv(R(layer_count), R(GradientLayers(k)))), MAX_FLOW),
                    RMul(RDiv(R(layer_count), R(GradientLayers(k))), MIN_FLOW)), 2)
    ELSE Round(RAdd(RMul(RDiv(R(layer_count), R(GradientLayers(k))), MAX_FLOW),
                    RMul(RSub(R(1), RDiv(R(layer_count), R(GradientLayers(k)))), MIN_FLOW)), 2)

\* if line.startswith(";LAYER_CHANGE")
ZLayer(z, l) ==
    IF l.k = "layer" /\ l.s = ";LAYER_CHANGE"
    THEN IF GradientLayers(z.k) = 0
         THEN [z EXCEPT !.layer_count = @ + 1, !.err = "ZeroDivisionError"]
         ELSE [z EXCEPT !.layer_count = @ + 1, !.E_factor = E_factor(z.k, z.layer_count + 1),
                        !.bound = TRUE]
    ELSE z

\* if prog_type.match(line): the lines added to the marker
ZType(z, l) ==
    IF z.err = "none" /\ l.k = "type" /\ l.voc = ";TYPE:"
    THEN IF l.s = "Internal infill"
         THEN IF ~z.bound THEN [z EXCEPT !.err = "NameError"]
              ELSE [z EXCEPT !.lines_out =
                        @ \o <<l, MLine("M221", z.E_factor)>>
                          \o (IF z.k.EQUALIZE_FLOW /\ RLt(R(100), z.E_factor)
                              THEN <<MLine("M220", Round(RDiv(R(10000), z.E_factor), 2))>>
                              ELSE <<>>)]
         ELSE [z EXCEPT !.lines_out =
                   @ \o <<l, MLine("M221", R(100))>>
                     \o (IF z.k.EQUALIZE_FLOW THEN <<MLine("M220", R(100))>> ELSE <<>>)]
    ELSE IF z.err = "none" THEN [z EXCEPT !.lines_out = Append(@, l)]
    ELSE z

\* layer_count = -BOTTTOM_LAYERS, lines_out = []
InitZ ==
    /\ cfg \in GuiParams
    /\ st = Locals(cfg)
    /\ lines = <<>>
    /\ gcode = <<>>
    /\ outFile = <<"untouched">>
    /\ phase = "z"
    /\ run = 1
    /\ \E k \in ZConstants :
           probe = [k |-> k, layer_count |-> -k.BOTTTOM_LAYERS, E_factor |-> Absent, bound |-> FALSE,
                    lines_out |-> <<>>, err |-> "none"]

\* one iteration of "for line in lines"; an exception leaves the loop
ZLine ==
    /\ phase = "z"
    /\ Len(gcode) < MaxZLines
    /\ \E l \in ZAlphabet :
           /\ gcode' = Append(gcode, l)
           /\ probe' = ZType(ZLayer(probe, l), l)
    /\ phase' = IF probe'.err = "none" THEN "z" ELSE "aborted"
    /\ UNCHANGED <<cfg, st, lines, outFile, run>>

\* the end of the loop: lines_out is written to the output file
ZWrite ==
    /\ phase = "z"
    /\ outFile' = probe.lines_out
    /\ phase' = "done"
    /\ UNCHANGED <<cfg, st, lines, gcode, run, probe>>

NextZ == ZLine \/ ZWrite

SpecZ == InitZ /\ [][NextZ]_vars

\* the places of lines_out that hold the M221 line of an infill marker
InfillFactors ==
    {i \in 2..Len(probe.lines_out) :
        /\ probe.lines_out[i].k = "m" /\ probe.lines_out[i].s = "M221"
        /\ probe.lines_out[i - 1] = TypeLine(";TYPE:", "Internal infill")}

\* C36: in the Z-gradient script the factor written after every
\* ";TYPE:Internal infill" marker is defined (the marker does not stop the
\* script for want of a layer-change marker before it) and lies between
\* MIN_FLOW and MAX_FLOW, in every layer.
C36_FactorInRange ==
    /\ probe.err # "NameError"
    /\ \A i \in InfillFactors :
          /\ RLe(MIN_FLOW, probe.lines_out[i].e)
          /\ RLe(probe.lines_out[i].e, MAX_FLOW)

RECURSIVE LastM(_, _, _)
\* the value of the last line cmd among the first i lines written; the
\* printer starts with both multipliers at 100
LastM(out, cmd, i) ==
    IF i = 0 THEN R(100)
    ELSE IF out[i].k = "m" /\ out[i].s = cmd THEN out[i].e
    ELSE LastM(out, cmd, i - 1)

\* the step reads a type marker and the script goes on
ZMarkerStep ==
    /\ phase = "z" /\ phase' = "z"
    /\ Len(gcode') = Len(gcode) + 1
    /\ StepLine.k = "type"

\* C37: after a type marker of the Z-gradient script the extrusion multiplier
\* in effect (the last M221) is E_factor in an Internal infill section and
\* 100 in any other section, and the speed multiplier in effect (the last
\* M220) is 10000 / E_factor in an Internal infill section with E_factor
\* above 100 and EQUALIZE_FLOW, and 100 otherwise.
C37_MultipliersInEffect ==
    [][ ZMarkerStep =>
            /\ LastM(probe'.lines_out, "M221", Len(probe'.lines_out)) =
                   IF StepLine.s = "Internal infill" THEN probe'.E_factor ELSE R(100)
            /\ LastM(probe'.lines_out, "M220", Len(probe'.lines_out)) =
                   IF StepLine.s = "Internal infill" /\ probe.k.EQUALIZE_FLOW /\ RLt(R(100), probe'.E_factor)
                   THEN Round(RDiv(R(10000), probe'.E_factor), 2)
                   ELSE R(100)
      ]_vars

=============================================================================
